---- MODULE Spec2Model ----
(***************************************************************************)
(* Statements file manager (browser client): filename classifier, upload   *)
(* dialogs and the parse-session poller, modelled from static/statements/  *)
(* js.  Each part of the page has its own specification over the shared    *)
(* variables; the parts that a specification does not exercise stay in     *)
(* their initial state.                                                    *)
(***************************************************************************)
EXTENDS Integers, Sequences, FiniteSets, TLC

VARIABLES
    cfFile,      \* the File handed to the classifier: [name, size]
    cfOrigin,    \* how the name was put together (the parts it was built from)
    cfMain,      \* result of validateUploadFile(file), Pending before the call
    cfUI         \* result of StatementsUI.validateFile(file), Pending before

cfVars == <<cfFile, cfOrigin, cfMain, cfUI>>

VARIABLES
    upVariant,            \* which upload dialog the page runs: "main" (main.js) or "modal" (upload-modal.js)
    upModalOpen,          \* #uploadModal is in the document
    selectedFiles,        \* main.js global selectedFiles (<<>> for null)
    fileInputFiles,       \* #fileInput.files of the dialog
    upListed,             \* main.js: files rendered in #selectedFilesList
    uploadBtnDisabled,    \* #uploadBtn.disabled
    cancelBtnDisabled,    \* main.js: the dialog's Cancel button
    uploadProgressShown,  \* main.js: #uploadProgress is displayed
    uploadResultsShown,   \* main.js: what #uploadResults shows
    upNet,                \* upload requests in flight
    upReqCount,           \* upload requests issued so far
    currentFiles,         \* UploadModal.currentFiles, in insertion order
    umListed,             \* upload-modal.js: #fileItems shows currentFiles
    nextFileId,           \* file ids handed out by addFile
    valNet,               \* validation requests in flight
    puFiles,              \* performUpload: filesToUpload
    puIndex,              \* performUpload: index of uploadNext
    puPhase,              \* performUpload: "idle", "inflight", "timer", "complete"
    uploadedCount,        \* performUpload: uploadedCount
    puResults             \* performUpload: results (success flags)

upVars == <<upVariant, upModalOpen, selectedFiles, fileInputFiles, upListed,
            uploadBtnDisabled, cancelBtnDisabled, uploadProgressShown,
            uploadResultsShown, upNet, upReqCount, currentFiles, umListed,
            nextFileId, valNet, puFiles, puIndex, puPhase, uploadedCount,
            puResults>>

VARIABLES
    psVariant,              \* the page: "main" (main.js parse dialog), "unified" (api.js unified frontend), "calendar" (progressive loader)
    psStage,                \* per parse: where the parse of that click stands
    psSid,                  \* per parse: the session_id its start request returned (0: none)
    psInterval,             \* per parse: the setInterval it created is still active
    progNet,                \* progress requests in flight, by issuing interval and session id in the URL
    backend,                \* per session: status the backend reports
    completions,            \* per session: runs of the completion handler
    parseModalOpen,         \* the parse dialog is shown
    parseCloseBtnDisabled,  \* main.js: #parseCloseBtn.disabled
    parseResultsShown,      \* what #parseResults shows
    currentParseSession,    \* api.js global (0: null / undefined)
    parseProgressInterval,  \* api.js global: the parse whose interval it holds (0: null)
    reloadPending,          \* api.js showParseResults: the 3s timer that reloads the page
    refNet,                 \* refreshAccountAfterParse: refresh-inventory requests in flight
    loadTimers,             \* refreshAccountAfterParse: pending 2s timers
    loadNet,                \* refreshAccountAfterParse: loadAccount requests in flight
    clStage,                \* ProgressiveCalendarLoader: position of loadCalendarProgressive
    psSent                  \* requests these pages have issued so far, modulo 2

psVars == <<psVariant, psStage, psSid, psInterval, progNet, backend,
            completions, parseModalOpen, parseCloseBtnDisabled,
            parseResultsShown, currentParseSession, parseProgressInterval,
            reloadPending, refNet, loadTimers, loadNet, clStage, psSent>>

VARIABLES
    mcVersion,      \* the StatementsUI version of ui.js that renders: "first" or "production"
    mcHandler,      \* the click handler of a month cell: "main" (downloadMonthFile) or "downloads" (Downloads.handleMonthClick)
    mcAccountType,  \* data-account-type of the account row
    mcMonthData,    \* the MonthRecord of the cell
    mcRendered,     \* updateMonthCell has run for the cell
    mcClass,        \* className of the cell
    mcIcon,         \* the icons in #file-icon-<account>-<month>
    mcDbIcon,       \* className of #db-icon-<account>-<month>
    mcCount,        \* textContent of #count-<account>-<month>
    mcModal,        \* the file selection modal is shown
    mcDownloads,    \* file types whose download has been started, in order
    mcClicks        \* clicks on the cell handled so far

mcVars == <<mcVersion, mcHandler, mcAccountType, mcMonthData, mcRendered,
            mcClass, mcIcon, mcDbIcon, mcCount, mcModal, mcDownloads,
            mcClicks>>

\* Account data: StatementsApp.currentYear and accountDataByYear, the year
\* selector, the single-account load and BulkLoader.loadAllFiles
VARIABLES
    ldLocation,     \* the page shown: "statements" or "login"
    currentYear,    \* StatementsApp.currentYear
    ldLastOp,       \* the last call of setAccountData / clearAccountData (op "none": none yet)
    accountDataByYear, \* StatementsApp.accountDataByYear: per year <<>> (no object) or, per account, 0 (no entry) or the year its data was fetched for
    ldSelector,     \* #yearSelector.value
    ldSelected,     \* the year the user went to last, by the selector or the history
    ldCalendar,     \* the year whose ui-data the calendar shows (0: cleared)
    ldYearNet,      \* ui-data requests of handleYearChange in flight
    ldHistory,      \* session history: the year of the URL and the years with an entry
    ldReqYear,      \* per account, the year in the URL of its latest load request
    ldProcessed,    \* loadAllFiles: processed
    ldSuccessful,   \* loadAllFiles: successful
    ldErrors,       \* loadAllFiles: errors.length
    ldResolved,     \* accounts whose loadAccount promise has resolved with data
    ldSingleNet,    \* accounts with a single-account load request in flight
    ldTimers,       \* accounts of the bulk run whose stagger timer is pending
    ldBulkNet,      \* accounts with a bulk load request in flight
    ldIssued,       \* accounts requested by the bulk run, in order of request
    ldDialog,       \* "none", "loading", "allLoaded" or "complete"
    ldRuns          \* bulk runs started so far

\* the state store of config.js
ldStore == <<currentYear, accountDataByYear, ldLastOp>>

\* the year selector, the calendar and the year changes under way
ldYear == <<ldSelector, ldSelected, ldCalendar, ldYearNet, ldHistory>>

\* the counters of a bulk run
ldCounters == <<ldProcessed, ldSuccessful, ldErrors>>

ldVars == <<ldLocation, ldStore, ldYear, ldReqYear, ldCounters, ldResolved,
            ldSingleNet, ldTimers, ldBulkNet, ldIssued, ldDialog, ldRuns>>

\* The calendar refresh after an upload (main.js)
VARIABLES
    ruDom,          \* #uploadResults and #uploadResultsList are in the document
    ruInFlight,     \* the upload request is pending
    ruHandled,      \* a response has been handed to the then handler
    ruData,         \* the response data last handled
    ruFetches,      \* loadAccount calls made for that response, per argument
    ruStored,       \* sessionStorage item recentUploads
    ruUploads       \* upload requests sent so far

ruVars == <<ruDom, ruInFlight, ruHandled, ruData, ruFetches, ruStored,
            ruUploads>>

\* API requests and their responses (StatementsAPI, startUpload,
\* handleYearChange)
VARIABLES
    rqLocation,     \* window.location: "statements" or "login"
    rqPending,      \* the request in flight, "none" when there is none
    rqLast,         \* the request settled last: kind, response, delivery
    rqCount         \* requests sent so far

rqVars == <<rqLocation, rqPending, rqLast, rqCount>>

vars == <<cfVars, upVars, psVars, mcVars, ldVars, ruVars, rqVars>>

\* what the classifier, the upload dialogs, the parse flow and the month
\* cells leave alone
nonCfVars == <<upVars, psVars, mcVars, ldVars, ruVars, rqVars>>
nonUpVars == <<cfVars, psVars, mcVars, ldVars, ruVars, rqVars>>
nonPsVars == <<cfVars, upVars, mcVars, ldVars, ruVars, rqVars>>
nonMcVars == <<cfVars, upVars, psVars, ldVars, ruVars, rqVars>>
nonLdVars == <<cfVars, upVars, psVars, mcVars, ruVars, rqVars>>
nonRuVars == <<cfVars, upVars, psVars, mcVars, ldVars, rqVars>>
nonRqVars == <<cfVars, upVars, psVars, mcVars, ldVars, ruVars>>

(***************************************************************************)
(* Characters and strings.  A filename is a sequence of one-character      *)
(* strings, so that the regular expressions can be evaluated position by   *)
(* position.                                                               *)
(***************************************************************************)
Digit == {"0", "1", "2", "3", "4", "5", "6", "7", "8", "9"}

Whitespace == {" ", "\t"}

\* String.prototype.toLowerCase on one character of the alphabet in use
LowerChar(c) ==
    CASE c = "E" -> "e"
      [] c = "C" -> "c"
      [] c = "P" -> "p"
      [] c = "D" -> "d"
      [] c = "F" -> "f"
      [] c = "X" -> "x"
      [] c = "L" -> "l"
      [] c = "S" -> "s"
      [] c = "B" -> "b"
      [] OTHER -> c

toLowerCase(s) == [i \in 1..Len(s) |-> LowerChar(s[i])]

\* String.prototype.endsWith
endsWith(s, suffix) ==
    /\ Len(s) >= Len(suffix)
    /\ SubSeq(s, Len(s) - Len(suffix) + 1, Len(s)) = suffix

AllDigits(s, from, to) == \A i \in from..to : s[i] \in Digit

ExtPdf  == <<".", "p", "d", "f">>
ExtXlsx == <<".", "x", "l", "s", "x">>
ExtXls  == <<".", "x", "l", "s">>

validExtensions == {ExtPdf, ExtXlsx, ExtXls}

\* 50 * 1024 * 1024
maxSize == 50 * 1024 * 1024

NoGroup == <<>>

(***************************************************************************)
(* /^ec-(\d{18})-(\d{4})(\d{2})\.(pdf|xlsx|xls)$/ : the match, or          *)
(* [matched |-> FALSE].  The pattern is anchored at both ends and every    *)
(* part but the extension has a fixed width.                               *)
(***************************************************************************)
stpPattern(fileName) ==
    IF /\ Len(fileName) >= 32
       /\ SubSeq(fileName, 1, 3) = <<"e", "c", "-">>
       /\ AllDigits(fileName, 4, 21)
       /\ fileName[22] = "-"
       /\ AllDigits(fileName, 23, 28)
       /\ fileName[29] = "."
       /\ SubSeq(fileName, 30, Len(fileName)) \in
              {<<"p", "d", "f">>, <<"x", "l", "s", "x">>, <<"x", "l", "s">>}
    THEN [matched |-> TRUE,
          g1 |-> SubSeq(fileName, 4, 21),
          g2 |-> SubSeq(fileName, 23, 26),
          g3 |-> SubSeq(fileName, 27, 28)]
    ELSE [matched |-> FALSE, g1 |-> NoGroup, g2 |-> NoGroup, g3 |-> NoGroup]

(***************************************************************************)
(* /^(\d{4})\s+(.+?)\.(pdf)$/ : \s+ is greedy and gives whitespace back    *)
(* until the lazy (.+?) has at least one character before the final        *)
(* ".pdf"; k is the number of whitespace characters \s+ ends up with.      *)
(***************************************************************************)
bbvaSplits(fileName) ==
    {k \in 1..Len(fileName) :
        /\ 4 + k + 1 + 4 <= Len(fileName)
        /\ \A i \in 5..(4 + k) : fileName[i] \in Whitespace}

bbvaPattern(fileName) ==
    IF /\ Len(fileName) >= 10
       /\ AllDigits(fileName, 1, 4)
       /\ endsWith(fileName, ExtPdf)
       /\ bbvaSplits(fileName) # {}
    THEN LET k == CHOOSE k \in bbvaSplits(fileName) :
                      \A j \in bbvaSplits(fileName) : j <= k
         IN [matched |-> TRUE,
             g1 |-> SubSeq(fileName, 1, 4),
             g2 |-> SubSeq(fileName, 5 + k, Len(fileName) - 4),
             g3 |-> <<"p", "d", "f">>]
    ELSE [matched |-> FALSE, g1 |-> NoGroup, g2 |-> NoGroup, g3 |-> NoGroup]

\* The classifier's return value: {valid, error} or {valid, info}; the info
\* string is kept as its kind and the captured groups it is formatted from.
Verdict(valid, error, info, m) ==
    [valid |-> valid, error |-> error, info |-> info,
     g1 |-> m.g1, g2 |-> m.g2, g3 |-> m.g3]

NoMatch == [matched |-> FALSE, g1 |-> NoGroup, g2 |-> NoGroup, g3 |-> NoGroup]

ErrType    == "Invalid file type. Use PDF, XLSX, or XLS files."
ErrSize    == "File too large. Maximum size is 50MB."
ErrPattern == "Filename doesn't match expected patterns"

\* A plausible slip: the size limit tested before the extension.
validateUploadFile_SizeFirst(file) ==
    LET fileName == toLowerCase(file.name)
        hasValidExtension == \E ext \in validExtensions : endsWith(fileName, ext)
    IN  IF file.size > maxSize
        THEN Verdict(FALSE, ErrSize, "", NoMatch)
        ELSE IF ~hasValidExtension
        THEN Verdict(FALSE, ErrType, "", NoMatch)
        ELSE IF stpPattern(fileName).matched
        THEN Verdict(TRUE, "", "STP file", stpPattern(fileName))
        ELSE IF bbvaPattern(fileName).matched
        THEN Verdict(TRUE, "", "BBVA file", bbvaPattern(fileName))
        ELSE IF endsWith(fileName, ExtPdf)
        THEN Verdict(TRUE, "", "PDF file - will auto-detect account", NoMatch)
        ELSE Verdict(FALSE, ErrPattern, "", NoMatch)

\* A plausible slip: the name is matched as typed, without toLowerCase().
validateUploadFile_CaseSensitive(file) ==
    LET fileName == file.name
        hasValidExtension ==
            \E ext \in validExtensions : endsWith(toLowerCase(fileName), ext)
    IN  IF ~hasValidExtension
        THEN Verdict(FALSE, ErrType, "", NoMatch)
        ELSE IF file.size > maxSize
        THEN Verdict(FALSE, ErrSize, "", NoMatch)
        ELSE IF stpPattern(fileName).matched
        THEN Verdict(TRUE, "", "STP file", stpPattern(fileName))
        ELSE IF bbvaPattern(fileName).matched
        THEN Verdict(TRUE, "", "BBVA file", bbvaPattern(fileName))
        ELSE IF endsWith(toLowerCase(fileName), ExtPdf)
        THEN Verdict(TRUE, "", "PDF file - will auto-detect account", NoMatch)
        ELSE Verdict(FALSE, ErrPattern, "", NoMatch)

\* A plausible slip: the BBVA test placed before the STP test and the
\* auto-detect fallback left out.
validateUploadFile_NoFallback(file) ==
    LET fileName == toLowerCase(file.name)
        hasValidExtension == \E ext \in validExtensions : endsWith(fileName, ext)
    IN  IF ~hasValidExtension
        THEN Verdict(FALSE, ErrType, "", NoMatch)
        ELSE IF file.size > maxSize
        THEN Verdict(FALSE, ErrSize, "", NoMatch)
        ELSE IF bbvaPattern(fileName).matched
        THEN Verdict(TRUE, "", "BBVA file", bbvaPattern(fileName))
        ELSE IF stpPattern(fileName).matched
        THEN Verdict(TRUE, "", "STP file", stpPattern(fileName))
        ELSE Verdict(FALSE, ErrPattern, "", NoMatch)

\* main.js validateUploadFile(file)
validateUploadFile(file) ==
    LET fileName == toLowerCase(file.name)
        hasValidExtension == \E ext \in validExtensions : endsWith(fileName, ext)
    IN  IF ~hasValidExtension
        THEN Verdict(FALSE, ErrType, "", NoMatch)
        ELSE IF file.size > maxSize
        THEN Verdict(FALSE, ErrSize, "", NoMatch)
        ELSE IF stpPattern(fileName).matched
        THEN Verdict(TRUE, "", "STP file", stpPattern(fileName))
        ELSE IF bbvaPattern(fileName).matched
        THEN Verdict(TRUE, "", "BBVA file", bbvaPattern(fileName))
        ELSE IF endsWith(fileName, ExtPdf)
        THEN Verdict(TRUE, "", "PDF file - will auto-detect account", NoMatch)
        ELSE Verdict(FALSE, ErrPattern, "", NoMatch)

\* ui.js StatementsUI.validateFile(file)
validateFile(file) ==
    LET fileName == toLowerCase(file.name)
        hasValidExtension == \E ext \in validExtensions : endsWith(fileName, ext)
    IN  IF ~hasValidExtension
        THEN Verdict(FALSE, ErrType, "", NoMatch)
        ELSE IF file.size > maxSize
        THEN Verdict(FALSE, ErrSize, "", NoMatch)
        ELSE IF stpPattern(fileName).matched
        THEN Verdict(TRUE, "", "STP file", stpPattern(fileName))
        ELSE IF bbvaPattern(fileName).matched
        THEN Verdict(TRUE, "", "BBVA file", bbvaPattern(fileName))
        ELSE IF endsWith(fileName, ExtPdf)
        THEN Verdict(TRUE, "", "PDF file - will auto-detect account", NoMatch)
        ELSE Verdict(FALSE, ErrPattern, "", NoMatch)

(***************************************************************************)
(* The files offered to the classifier.  Names are put together from parts *)
(* so that well-formed STP and BBVA names, near misses of both and         *)
(* unrelated names all occur; cfOrigin remembers the parts.                *)
(***************************************************************************)
\* longest run of whitespace placed between the BBVA prefix and the name
MaxWs == 2

D18a == <<"1","2","3","4","5","6","7","8","9","0","1","2","3","4","5","6","7","8">>
D18b == <<"0","0","0","0","0","0","0","0","0","0","0","0","0","0","0","0","0","9">>

StpPrefixes == {<<"e","c","-">>, <<"E","C","-">>, <<"x","c","-">>, <<"e","c">>}

StpAccounts ==
    {D18a, D18b, SubSeq(D18a, 1, 17), D18a \o <<"9">>,
     [D18a EXCEPT ![7] = "x"]}

StpYears == {<<"2","0","2","5">>, <<"1","9","9","9">>}

StpMonths == {<<"0","1">>, <<"1","3">>, <<"1">>}

Extensions ==
    {<<"p","d","f">>, <<"x","l","s","x">>, <<"x","l","s">>,
     <<"P","D","F">>, <<"X","l","s","X">>,
     <<"d","o","c","x">>, <<"c","s","v">>, <<"p","d">>}

BbvaPrefixes == {<<"2","5","0","1">>, <<"2","5","b","1">>, <<"2","5","0">>}

WsRuns ==
    UNION {[1..n -> Whitespace] : n \in 0..MaxWs}

BbvaNames ==
    {<<>>, <<"b","b","v","a">>, <<"B"," ","c">>, <<"a",".","b">>}

OtherNames ==
    {<<"r","a","n","d","o","m",".","d","o","c","x">>,
     <<"r","e","p","o","r","t",".","p","d","f">>,
     <<"d","a","t","a",".","x","l","s","x">>,
     <<"s","c","a","n",".","P","D","F">>,
     <<".","p","d","f">>,
     <<"p","d","f">>,
     <<>>,
     <<"a",".","x","l","s",".","c","s","v">>}

StpOrigins ==
    [kind : {"stp"}, prefix : StpPrefixes, acct : StpAccounts,
     year : StpYears, month : StpMonths, ext : Extensions]

BbvaOrigins ==
    [kind : {"bbva"}, d4 : BbvaPrefixes, ws : WsRuns, nm : BbvaNames,
     ext : Extensions]

OtherOrigins == [kind : {"other"}, whole : OtherNames]

Origins == StpOrigins \cup BbvaOrigins \cup OtherOrigins

\* the filename an origin stands for
BuildName(o) ==
    CASE o.kind = "stp" ->
            o.prefix \o o.acct \o <<"-">> \o o.year \o o.month \o <<".">> \o o.ext
      [] o.kind = "bbva" ->
            o.d4 \o o.ws \o o.nm \o <<".">> \o o.ext
      [] OTHER -> o.whole

\* 51 * 1024 * 1024
Size51MB == 51 * 1024 * 1024

Sizes == {0, 1024, maxSize, maxSize + 1, Size51MB}

\* the classifier has not been called yet
Pending == Verdict(FALSE, "", "", NoMatch)

(***************************************************************************)
(* The parse flow and the loaders: state before the first click            *)
(***************************************************************************)
\* parses started on one page
MaxParses == 2

\* progress requests one interval has in flight at a time
MaxInFlight == 2

\* the count of completion-handler runs is kept up to this value
MaxCompletions == 2

Parses == 1..MaxParses

\* session ids; 0 stands for null / undefined
SessionIds == 0..MaxParses

psStart(v) ==
    /\ psVariant = v
    /\ psStage = [p \in Parses |-> "idle"]
    /\ psSid = [p \in Parses |-> 0]
    /\ psInterval = [p \in Parses |-> FALSE]
    /\ progNet = [p \in Parses |-> [s \in SessionIds |-> 0]]
    /\ backend = [s \in Parses |-> "none"]
    /\ completions = [s \in Parses |-> 0]
    /\ parseModalOpen = FALSE
    /\ parseCloseBtnDisabled = FALSE
    /\ parseResultsShown = "hidden"
    /\ currentParseSession = 0
    /\ parseProgressInterval = 0
    /\ reloadPending = FALSE
    /\ refNet = 0
    /\ loadTimers = 0
    /\ loadNet = 0
    /\ clStage = "idle"
    /\ psSent = 0

psIdle == psStart("main")

(***************************************************************************)
(* Month cells: state before a cell is rendered                            *)
(***************************************************************************)
\* a file sub-record of a MonthRecord; present = FALSE stands for a missing
\* or null sub-record
NoFile == [present |-> FALSE, transaction_count |-> 0, parse_status |-> "none"]

\* textContent of a count element: '-' or a number with its unit
Dash == [unit |-> "-", value |-> 0]

mcStart(version, handler, accountType, monthData) ==
    /\ mcVersion = version
    /\ mcHandler = handler
    /\ mcAccountType = accountType
    /\ mcMonthData = monthData
    /\ mcRendered = FALSE
    /\ mcClass = "month-cell no-file"
    /\ mcIcon = {}
    /\ mcDbIcon = "db-not-loaded"
    /\ mcCount = Dash
    /\ mcModal = FALSE
    /\ mcDownloads = <<>>
    /\ mcClicks = 0

\* stands for the undefined that accountData.months[monthKey] gives for a
\* month the account data has no record of
NoMonth ==
    [xlsx |-> NoFile, pdf |-> NoFile, transaction_count |-> 0,
     status |-> "absent", file_count |-> 0]

mcIdle == mcStart("production", "main", "stp", NoMonth)

\* accounts on the page, numbered in StatementsApp.accountIds order
MaxAccounts == 3

Accounts == 1..MaxAccounts

\* the years of the year selector
Years == {2024, 2025}

\* accountDataByYear[year] when the year has no object, and the object {}
NoYearData == <<>>

EmptyYearData == [a \in Accounts |-> 0]

\* StatementsApp.init(templateYear) on a freshly loaded page of the year
InitStore(year) ==
    /\ currentYear = year
    /\ accountDataByYear =
          [y \in Years |-> IF y = year THEN EmptyYearData ELSE NoYearData]

\* no call of setAccountData or clearAccountData yet
NoOp == [op |-> "none", accountId |-> 0, accountData |-> 0]

\* the page of currentYear before any request
ldFresh ==
    /\ ldLocation = "statements"
    /\ ldLastOp = NoOp
    /\ ldSelector = currentYear
    /\ ldSelected = currentYear
    /\ ldCalendar = currentYear
    /\ ldYearNet = {}
    /\ ldHistory = [url |-> currentYear, entries |-> {currentYear}]
    /\ ldReqYear = [a \in Accounts |-> 0]
    /\ ldProcessed = 0
    /\ ldSuccessful = 0
    /\ ldErrors = 0
    /\ ldResolved = {}
    /\ ldSingleNet = {}
    /\ ldTimers = {}
    /\ ldBulkNet = {}
    /\ ldIssued = <<>>
    /\ ldDialog = "none"
    /\ ldRuns = 0

\* the parts of the page a specification does not exercise
\* the account data of a freshly loaded page
ldIdle == InitStore(2025) /\ ldFresh

\* values of the JavaScript expressions that yield an account id or nothing
Null == [kind |-> "null", value |-> ""]
Str(s) == [kind |-> "string", value |-> s]
Inherited(name) == [kind |-> "inherited", value |-> name]

\* an upload response without results; the sessionStorage without the item
NoData == [success |-> FALSE, results |-> <<>>]
NoItem == [present |-> FALSE, results |-> <<>>]

\* the inherited properties a lookup in an object literal finds
ObjectPrototype ==
    {"constructor", "toString", "toLocaleString", "valueOf", "hasOwnProperty",
     "isPrototypeOf", "propertyIsEnumerable", "__proto__"}

\* StatementsApp.accountIds
accountIds ==
    <<"stp_sa", "stp_ip_pi", "stp_ip_pd", "bbva_mx_mxn", "bbva_mx_usd",
      "bbva_sa_mxn", "bbva_sa_usd", "bbva_ip_corp", "bbva_ip_clientes">>

\* nameMap of StatementsApp.formatAccountName
nameMap ==
    [stp_sa |-> "STP SA", stp_ip_pi |-> "STP IP - PI",
     stp_ip_pd |-> "STP IP - PD", bbva_mx_mxn |-> "BBVA MX MXN",
     bbva_mx_usd |-> "BBVA MX USD", bbva_sa_mxn |-> "BBVA SA MXN",
     bbva_sa_usd |-> "BBVA SA USD", bbva_ip_corp |-> "BBVA IP Corp",
     bbva_ip_clientes |-> "BBVA IP Clientes"]

\* accountMappings of mapAccountNameToId
accountMappings ==
    ("STP SA" :> "stp_sa") @@ ("STP IP - PD" :> "stp_ip_pd")
    @@ ("STP IP - PI" :> "stp_ip_pi") @@ ("BBVA MX MXN" :> "bbva_mx_mxn")
    @@ ("BBVA MX USD" :> "bbva_mx_usd") @@ ("BBVA SA MXN" :> "bbva_sa_mxn")
    @@ ("BBVA SA USD" :> "bbva_sa_usd") @@ ("BBVA IP Corp" :> "bbva_ip_corp")
    @@ ("BBVA IP Clientes" :> "bbva_ip_clientes")

\* accountId.toUpperCase().replace(/_/g, ' ') on the ids outside nameMap that
\* are tried
OtherIds == ("bbva_new" :> "BBVA NEW") @@ ("stp_x" :> "STP X")

\* StatementsApp.formatAccountName(accountId)
formatAccountName(accountId) ==
    IF accountId \in DOMAIN nameMap THEN Str(nameMap[accountId])
    ELSE IF accountId \in ObjectPrototype THEN Inherited(accountId)
    ELSE Str(OtherIds[accountId])

\* main.js mapAccountNameToId(accountName): accountMappings[accountName] || null
mapAccountNameToId(accountName) ==
    IF accountName \in DOMAIN accountMappings
    THEN Str(accountMappings[accountName])
    ELSE IF accountName \in ObjectPrototype THEN Inherited(accountName)
    ELSE Null

\* account_name values a result of the upload response may carry; "" stands
\* for a result without account_name
AccountNames == {"STP SA", "BBVA IP Corp", "BBVA NEW", "constructor", ""}

\* arguments loadAccount can be called with after an upload
Targets == {mapAccountNameToId(n) : n \in AccountNames} \ {Null}

NoFetches == [t \in Targets |-> 0]

\* the upload refresh of a freshly loaded page
ruIdle ==
    /\ ruDom = FALSE
    /\ ruInFlight = FALSE
    /\ ruHandled = FALSE
    /\ ruData = NoData
    /\ ruFetches = NoFetches
    /\ ruStored = NoItem
    /\ ruUploads = 0

\* no request settled yet
NoRequestYet == [kind |-> "none", response |-> "none", delivery |-> "none"]

\* the requests of a freshly loaded page
rqIdle ==
    /\ rqLocation = "statements"
    /\ rqPending = "none"
    /\ rqLast = NoRequestYet
    /\ rqCount = 0

otherIdle == mcIdle /\ ldIdle /\ ruIdle /\ rqIdle

\* the upload dialogs before the user opens one
upStart(v) ==
    /\ upVariant = v
    /\ upModalOpen = FALSE
    /\ selectedFiles = <<>>
    /\ fileInputFiles = <<>>
    /\ upListed = <<>>
    /\ uploadBtnDisabled = TRUE
    /\ cancelBtnDisabled = FALSE
    /\ uploadProgressShown = FALSE
    /\ uploadResultsShown = "none"
    /\ upNet = {}
    /\ upReqCount = 0
    /\ currentFiles = <<>>
    /\ umListed = FALSE
    /\ nextFileId = 1
    /\ valNet = {}
    /\ puFiles = <<>>
    /\ puIndex = 0
    /\ puPhase = "idle"
    /\ uploadedCount = 0
    /\ puResults = <<>>

upIdle == upStart("main")

\* the classifier before a file is handed to it
cfIdle ==
    /\ cfOrigin = [kind |-> "other", whole |-> <<>>]
    /\ cfFile = [name |-> <<>>, size |-> 0]
    /\ cfMain = Pending
    /\ cfUI = Pending

cfInit ==
    /\ upIdle
    /\ psIdle
    /\ otherIdle
    /\ cfOrigin \in Origins
    /\ \E sz \in Sizes : cfFile = [name |-> BuildName(cfOrigin), size |-> sz]
    /\ cfMain = Pending
    /\ cfUI = Pending

\* displaySelectedFiles: var validation = validateUploadFile(file)
ClassifyMain ==
    /\ cfMain = Pending
    /\ cfMain' = validateUploadFile(cfFile)
    /\ UNCHANGED <<cfFile, cfOrigin, cfUI, nonCfVars>>

\* StatementsUI.showFilePreview: var validation = self.validateFile(file)
ClassifyUI ==
    /\ cfUI = Pending
    /\ cfUI' = validateFile(cfFile)
    /\ UNCHANGED <<cfFile, cfOrigin, cfMain, nonCfVars>>

NextClassify == ClassifyMain \/ ClassifyUI

SpecClassify == cfInit /\ [][NextClassify]_vars

(***************************************************************************)
(* C8 - C10: the classifier                                                *)
(***************************************************************************)
SupportedExt(e) ==
    toLowerCase(e) \in {<<"p","d","f">>, <<"x","l","s","x">>, <<"x","l","s">>}

\* the name was built as ec-<18 digits>-<YYYY><MM>.<pdf|xlsx|xls>, in any case
BuiltAsStp ==
    /\ cfOrigin.kind = "stp"
    /\ toLowerCase(cfOrigin.prefix) = <<"e","c","-">>
    /\ Len(cfOrigin.acct) = 18
    /\ \A i \in 1..18 : cfOrigin.acct[i] \in Digit
    /\ Len(cfOrigin.month) = 2
    /\ SupportedExt(cfOrigin.ext)

IsStpVerdict(v) ==
    /\ v.valid
    /\ v.info = "STP file"
    /\ v.g1 = cfOrigin.acct
    /\ v.g2 = cfOrigin.year
    /\ v.g3 = cfOrigin.month

\* C8 as stated: every file whose lowercased name matches the STP pattern is
\* classified valid with the account, year and month of its name.
C8_AsStated ==
    BuiltAsStp =>
        /\ (cfMain # Pending => IsStpVerdict(cfMain))
        /\ (cfUI # Pending => IsStpVerdict(cfUI))

\* C8 amended: every file whose lowercased name matches the STP pattern and
\* whose size is at most 50MB is classified valid, as an STP file, with the
\* account number, year and month of its name.
C8_StpWithinLimit ==
    (BuiltAsStp /\ cfFile.size <= maxSize) =>
        /\ (cfMain # Pending => IsStpVerdict(cfMain))
        /\ (cfUI # Pending => IsStpVerdict(cfUI))

C8_Witness ==
    /\ BuiltAsStp
    /\ cfOrigin.ext = <<"X","l","s","X">>
    /\ cfFile.size = maxSize
    /\ IsStpVerdict(cfMain)
    /\ IsStpVerdict(cfUI)

\* the name was built with an extension other than pdf, xlsx, xls
BuiltUnsupported ==
    \/ cfOrigin.kind \in {"stp", "bbva"} /\ ~SupportedExt(cfOrigin.ext)
    \/ /\ cfOrigin.kind = "other"
       /\ cfOrigin.whole \in
            {<<"r","a","n","d","o","m",".","d","o","c","x">>,
             <<"p","d","f">>, <<>>,
             <<"a",".","x","l","s",".","c","s","v">>}

IsTypeError(v) == ~v.valid /\ v.error = ErrType

\* C9: a file whose name does not end in .pdf, .xlsx or .xls (in any case) is
\* classified invalid with the unsupported-file-type error, whatever its size
\* and the rest of its name.
C9_UnsupportedExtension ==
    BuiltUnsupported =>
        /\ (cfMain # Pending => IsTypeError(cfMain))
        /\ (cfUI # Pending => IsTypeError(cfUI))

C9_Witness ==
    /\ BuiltUnsupported
    /\ cfOrigin.kind = "stp"
    /\ cfFile.size > maxSize
    /\ IsTypeError(cfMain)
    /\ IsTypeError(cfUI)

\* The reference of C10: the fixed priority order.
Reference(file) ==
    LET n == toLowerCase(file.name)
        extOk == endsWith(n, ExtPdf) \/ endsWith(n, ExtXlsx) \/ endsWith(n, ExtXls)
    IN  CASE ~extOk -> [valid |-> FALSE, why |-> ErrType]
          [] extOk /\ file.size > maxSize -> [valid |-> FALSE, why |-> ErrSize]
          [] extOk /\ file.size <= maxSize /\ stpPattern(n).matched ->
                [valid |-> TRUE, why |-> "STP file"]
          [] extOk /\ file.size <= maxSize /\ ~stpPattern(n).matched
                /\ bbvaPattern(n).matched ->
                [valid |-> TRUE, why |-> "BBVA file"]
          [] extOk /\ file.size <= maxSize /\ ~stpPattern(n).matched
                /\ ~bbvaPattern(n).matched /\ endsWith(n, ExtPdf) ->
                [valid |-> TRUE, why |-> "PDF file - will auto-detect account"]
          [] OTHER -> [valid |-> FALSE, why |-> ErrPattern]

Agrees(v, file) ==
    /\ v.valid = Reference(file).valid
    /\ (IF v.valid THEN v.info ELSE v.error) = Reference(file).why
    /\ v.valid <=>
          LET n == toLowerCase(file.name)
          IN  /\ \E ext \in {ExtPdf, ExtXlsx, ExtXls} : endsWith(n, ext)
              /\ file.size <= maxSize
              /\ (endsWith(n, ExtPdf) \/ stpPattern(n).matched)

\* C10: the classifier agrees with the priority-order reference for every
\* file, and a file is valid iff its extension is supported, its size is at
\* most 50MB and it is a .pdf or matches the STP pattern.
C10_PriorityOrder ==
    /\ (cfMain # Pending => Agrees(cfMain, cfFile))
    /\ (cfUI # Pending => Agrees(cfUI, cfFile))

\* "2501 bbva.pdf"-like name classified BBVA, and the name part is what
\* follows the whitespace
C10_Witness ==
    /\ cfOrigin.kind = "bbva"
    /\ cfOrigin.d4 = <<"2","5","0","1">>
    /\ cfOrigin.ws = <<" ", "\t">>
    /\ cfOrigin.nm = <<"B"," ","c">>
    /\ cfOrigin.ext = <<"P","D","F">>
    /\ cfMain.valid /\ cfMain.info = "BBVA file"
    /\ cfMain.g2 = <<"b"," ","c">>
    /\ cfUI = cfMain

(***************************************************************************)
(* The upload dialogs: main.js (one multipart request with every selected  *)
(* file) and upload-modal.js (server-side validation, one request per      *)
(* valid file).                                                            *)
(***************************************************************************)
\* most files in one selection
MaxSelect == 2

\* most multipart upload requests issued by the main.js dialog
MaxUploads == 2

\* most file ids handed out by UploadModal.addFile
MaxFileIds == 3

UpFileIds == {"A", "B", "C"}

\* the File objects the user can select
UpFile(f) ==
    CASE f = "A" ->
            [name |-> BuildName([kind |-> "stp", prefix |-> <<"e","c","-">>,
                                 acct |-> D18a, year |-> <<"2","0","2","5">>,
                                 month |-> <<"0","1">>,
                                 ext |-> <<"x","l","s","x">>]),
             size |-> 1024]
      [] f = "B" ->
            [name |-> <<"r","e","p","o","r","t",".","p","d","f">>,
             size |-> Size51MB]
      [] OTHER ->
            [name |-> <<"r","a","n","d","o","m",".","d","o","c","x">>,
             size |-> 1024]

Selections ==
    {sel \in UNION {[1..n -> UpFileIds] : n \in 1..MaxSelect} :
        \A i, j \in DOMAIN sel : i # j => sel[i] # sel[j]}

\* displaySelectedFiles: validFiles
validFilesCount(files) ==
    Cardinality({i \in DOMAIN files : validateUploadFile(UpFile(files[i])).valid})

\* the dialog's DOM once #uploadModal is removed or rebuilt
UploadDomReset ==
    /\ upListed' = <<>>
    /\ uploadBtnDisabled' = TRUE
    /\ cancelBtnDisabled' = FALSE
    /\ uploadProgressShown' = FALSE
    /\ uploadResultsShown' = "none"

umVars == <<currentFiles, umListed, nextFileId, valNet, puFiles, puIndex,
            puPhase, uploadedCount, puResults>>

\* main.js uploadToTeams / showUploadModal
showUploadModal ==
    /\ upVariant = "main"
    /\ ~upModalOpen
    /\ upModalOpen' = TRUE
    /\ UploadDomReset
    /\ fileInputFiles' = <<>>
    /\ UNCHANGED <<upVariant, selectedFiles, upNet, upReqCount, umVars, nonUpVars>>

\* main.js showUploadModal: the hidden.bs.modal handler
hideUploadModal ==
    /\ upVariant = "main"
    /\ upModalOpen
    /\ upModalOpen' = FALSE
    /\ selectedFiles' = <<>>
    /\ fileInputFiles' = <<>>
    /\ UploadDomReset
    /\ upNet' = {[r EXCEPT !.detached = TRUE] : r \in upNet}
    /\ UNCHANGED <<upVariant, upReqCount, umVars, nonUpVars>>

\* A plausible slip: the button enabled only when every file is valid.
displaySelectedFiles_AllValid(files) ==
    /\ upListed' = files
    /\ uploadBtnDisabled' = (validFilesCount(files) < Len(files))

\* main.js displaySelectedFiles(files)
displaySelectedFiles(files) ==
    /\ upListed' = files
    /\ uploadBtnDisabled' = (validFilesCount(files) = 0)

\* main.js handleFileDrop(event)
handleFileDrop(files) ==
    /\ upVariant = "main"
    /\ upModalOpen
    /\ selectedFiles' = files
    /\ displaySelectedFiles(files)
    /\ UNCHANGED <<upVariant, upModalOpen, fileInputFiles, cancelBtnDisabled,
                   uploadProgressShown, uploadResultsShown, upNet, upReqCount,
                   umVars, nonUpVars>>

\* main.js handleFileSelection()
handleFileSelection(files) ==
    /\ upVariant = "main"
    /\ upModalOpen
    /\ fileInputFiles' = files
    /\ selectedFiles' = files
    /\ displaySelectedFiles(files)
    /\ UNCHANGED <<upVariant, upModalOpen, cancelBtnDisabled,
                   uploadProgressShown, uploadResultsShown, upNet, upReqCount,
                   umVars, nonUpVars>>

\* main.js startUpload(), run by a click on the enabled #uploadBtn
startUpload ==
    /\ upVariant = "main"
    /\ upModalOpen
    /\ ~uploadBtnDisabled
    /\ upReqCount < MaxUploads
    /\ LET filesToUpload ==
               IF selectedFiles # <<>> THEN selectedFiles ELSE fileInputFiles
       IN  IF filesToUpload = <<>>
           THEN UNCHANGED <<uploadProgressShown, uploadBtnDisabled,
                            cancelBtnDisabled, upNet, upReqCount>>
           ELSE /\ uploadProgressShown' = TRUE
                /\ uploadBtnDisabled' = TRUE
                /\ cancelBtnDisabled' = TRUE
                /\ upReqCount' = upReqCount + 1
                /\ upNet' = upNet \cup {[id |-> upReqCount + 1,
                                         files |-> filesToUpload,
                                         detached |-> FALSE]}
    /\ UNCHANGED <<upVariant, upModalOpen, selectedFiles, fileInputFiles,
                   upListed, uploadResultsShown, umVars, nonUpVars>>

UploadOutcomes == {"success", "failure", "http", "network"}

\* main.js startUpload: the then / catch / finally handlers of the fetch
uploadSettled(r, outcome) ==
    /\ upVariant = "main"
    /\ r \in upNet
    /\ upNet' = upNet \ {r}
    /\ IF outcome \in {"success", "failure"}
       THEN /\ selectedFiles' = <<>>
            /\ fileInputFiles' = IF r.detached THEN fileInputFiles ELSE <<>>
            /\ uploadResultsShown' =
                   IF upModalOpen
                   THEN (IF outcome = "success" THEN "success" ELSE "failed")
                   ELSE uploadResultsShown
       ELSE /\ UNCHANGED <<selectedFiles, fileInputFiles>>
            /\ uploadResultsShown' =
                   IF upModalOpen THEN "failed" ELSE uploadResultsShown
    /\ cancelBtnDisabled' = IF r.detached THEN cancelBtnDisabled ELSE FALSE
    /\ UNCHANGED <<upVariant, upModalOpen, upListed, uploadBtnDisabled,
                   uploadProgressShown, upReqCount, umVars, nonUpVars>>

umainVars == <<selectedFiles, fileInputFiles, upListed, cancelBtnDisabled,
               uploadProgressShown, uploadResultsShown, upReqCount>>

StatusOf(files, st) == {i \in DOMAIN files : files[i].st = st}

\* A plausible slip: the button enabled as soon as one file is valid, also
\* while other files are still being validated.
updateUploadButton_IgnoreValidating(files) ==
    StatusOf(files, "valid") = {}

\* upload-modal.js updateUploadButton: uploadBtn.disabled
updateUploadButton(files) ==
    LET hasValidFiles == StatusOf(files, "valid") # {}
        isValidating == StatusOf(files, "validating") # {}
    IN  ~hasValidFiles \/ isValidating

\* upload-modal.js UploadModal.show / createModal
show ==
    /\ upVariant = "modal"
    /\ ~upModalOpen
    /\ puPhase \in {"idle", "complete"}
    /\ upModalOpen' = TRUE
    /\ uploadBtnDisabled' = TRUE
    /\ umListed' = FALSE
    /\ UNCHANGED <<upVariant, umainVars, upNet, currentFiles, nextFileId,
                   valNet, puFiles, puIndex, puPhase, uploadedCount, puResults,
                   nonUpVars>>

\* upload-modal.js show: the hidden.bs.modal handler
hidden ==
    /\ upVariant = "modal"
    /\ upModalOpen
    /\ upModalOpen' = FALSE
    /\ uploadBtnDisabled' = TRUE
    /\ umListed' = FALSE
    /\ UNCHANGED <<upVariant, umainVars, upNet, currentFiles, nextFileId,
                   valNet, puFiles, puIndex, puPhase, uploadedCount, puResults,
                   nonUpVars>>

\* upload-modal.js handleFiles(files): clear, addFile for each, updateFileList
handleFiles(files) ==
    /\ upVariant = "modal"
    /\ upModalOpen
    /\ nextFileId + Len(files) - 1 <= MaxFileIds
    /\ currentFiles' = [i \in 1..Len(files) |->
                           [id |-> nextFileId + i - 1, file |-> files[i],
                            st |-> "validating"]]
    /\ valNet' = valNet \cup {[id |-> nextFileId + i - 1, file |-> files[i]] :
                                 i \in 1..Len(files)}
    /\ nextFileId' = nextFileId + Len(files)
    /\ umListed' = TRUE
    /\ uploadBtnDisabled' = updateUploadButton(currentFiles')
    /\ UNCHANGED <<upVariant, upModalOpen, umainVars, upNet, puFiles, puIndex,
                   puPhase, uploadedCount, puResults, nonUpVars>>

ValidationOutcomes == {"valid", "invalid", "error"}

\* upload-modal.js validateFile: the then / catch handlers of the fetch
validationSettled(q, outcome) ==
    /\ upVariant = "modal"
    /\ q \in valNet
    /\ valNet' = valNet \ {q}
    /\ IF \E i \in DOMAIN currentFiles : currentFiles[i].id = q.id
       THEN /\ currentFiles' = [i \in DOMAIN currentFiles |->
                                   IF currentFiles[i].id = q.id
                                   THEN [currentFiles[i] EXCEPT !.st = outcome]
                                   ELSE currentFiles[i]]
            /\ uploadBtnDisabled' = IF upModalOpen
                                    THEN updateUploadButton(currentFiles')
                                    ELSE uploadBtnDisabled
       ELSE UNCHANGED <<currentFiles, uploadBtnDisabled>>
    /\ UNCHANGED <<upVariant, upModalOpen, umainVars, upNet, umListed,
                   nextFileId, puFiles, puIndex, puPhase, uploadedCount,
                   puResults, nonUpVars>>

\* upload-modal.js removeFile(fileId), from the button of a listed file
removeFile(fileId) ==
    /\ upVariant = "modal"
    /\ upModalOpen
    /\ umListed
    /\ \E i \in DOMAIN currentFiles : currentFiles[i].id = fileId
    /\ currentFiles' = SelectSeq(currentFiles, LAMBDA e : e.id # fileId)
    /\ uploadBtnDisabled' = updateUploadButton(currentFiles')
    /\ UNCHANGED <<upVariant, upModalOpen, umainVars, upNet, umListed,
                   nextFileId, valNet, puFiles, puIndex, puPhase,
                   uploadedCount, puResults, nonUpVars>>

\* the request of uploadNext(index) for one file
PerFileRequest(files, index) ==
    {[id |-> index + 1, files |-> <<files[index + 1].file>>, detached |-> FALSE]}

\* upload-modal.js startUpload(), run by a click on the enabled #uploadBtn,
\* with performUpload(validFiles) and its uploadNext(0)
modalStartUpload ==
    /\ upVariant = "modal"
    /\ upModalOpen
    /\ ~uploadBtnDisabled
    /\ puPhase \in {"idle", "complete"}
    /\ LET validFiles == SelectSeq(currentFiles, LAMBDA e : e.st = "valid")
       IN  IF validFiles = <<>>
           THEN UNCHANGED <<upModalOpen, uploadBtnDisabled, umListed, puFiles,
                            puIndex, puPhase, uploadedCount, puResults, upNet>>
           ELSE /\ upModalOpen' = FALSE
                /\ uploadBtnDisabled' = TRUE
                /\ umListed' = FALSE
                /\ puFiles' = validFiles
                /\ puIndex' = 0
                /\ uploadedCount' = 0
                /\ puResults' = <<>>
                /\ puPhase' = "inflight"
                /\ upNet' = PerFileRequest(validFiles, 0)
    /\ UNCHANGED <<upVariant, umainVars, currentFiles, nextFileId, valNet,
                   nonUpVars>>

PerFileOutcomes == {"success", "failure", "auth", "http", "network"}

\* A plausible slip: a failed file ends the run.
perFileSettled_StopOnFailure(outcome) ==
    /\ upVariant = "modal"
    /\ puPhase = "inflight"
    /\ upNet' = {}
    /\ uploadedCount' = IF outcome = "auth" THEN uploadedCount + 2
                        ELSE uploadedCount + 1
    /\ puResults' = Append(puResults, outcome = "success")
    /\ puPhase' = IF outcome = "success" THEN "timer" ELSE "complete"
    /\ UNCHANGED <<upVariant, upModalOpen, umainVars, uploadBtnDisabled,
                   currentFiles, umListed, nextFileId, valNet, puFiles,
                   puIndex, nonUpVars>>

\* upload-modal.js performUpload: the then / then / catch handlers of the
\* fetch of one file.  On 401/403 the first handler returns undefined, the
\* second one counts the file and then throws on data.results, and the catch
\* handler counts it again.
perFileSettled(outcome) ==
    /\ upVariant = "modal"
    /\ puPhase = "inflight"
    /\ upNet' = {}
    /\ uploadedCount' = IF outcome = "auth" THEN uploadedCount + 2
                        ELSE uploadedCount + 1
    /\ puResults' = Append(puResults, outcome = "success")
    /\ puPhase' = "timer"
    /\ UNCHANGED <<upVariant, upModalOpen, umainVars, uploadBtnDisabled,
                   currentFiles, umListed, nextFileId, valNet, puFiles,
                   puIndex, nonUpVars>>

\* upload-modal.js performUpload: setTimeout(() => uploadNext(index + 1), 500)
uploadNext ==
    /\ upVariant = "modal"
    /\ puPhase = "timer"
    /\ IF puIndex + 1 >= Len(puFiles)
       THEN /\ puPhase' = "complete"
            /\ UNCHANGED <<puIndex, upNet>>
       ELSE /\ puIndex' = puIndex + 1
            /\ puPhase' = "inflight"
            /\ upNet' = PerFileRequest(puFiles, puIndex + 1)
    /\ UNCHANGED <<upVariant, upModalOpen, umainVars, uploadBtnDisabled,
                   currentFiles, umListed, nextFileId, valNet, puFiles,
                   uploadedCount, puResults, nonUpVars>>

upInit ==
    /\ cfIdle
    /\ psIdle
    /\ otherIdle
    /\ \E v \in {"main", "modal"} : upStart(v)

NextUpload ==
    \/ showUploadModal
    \/ hideUploadModal
    \/ \E files \in Selections : handleFileDrop(files)
    \/ \E files \in Selections : handleFileSelection(files)
    \/ startUpload
    \/ \E r \in upNet : \E o \in UploadOutcomes : uploadSettled(r, o)
    \/ show
    \/ hidden
    \/ \E files \in Selections : handleFiles(files)
    \/ \E q \in valNet : \E o \in ValidationOutcomes : validationSettled(q, o)
    \/ \E id \in 1..MaxFileIds : removeFile(id)
    \/ modalStartUpload
    \/ \E o \in PerFileOutcomes : perFileSettled(o)
    \/ uploadNext

SpecUpload == upInit /\ [][NextUpload]_vars

(***************************************************************************)
(* C1, C7: the upload dialogs                                              *)
(***************************************************************************)
\* C1: no upload request in flight carries a file larger than 50MB,
\* whatever other files were selected together with it.
C1_NoOversizedFileSent ==
    \A r \in upNet : \A i \in DOMAIN r.files : UpFile(r.files[i]).size <= maxSize

\* the files the dialog holds as selected, with their validity
SelectedValid ==
    IF upVariant = "main"
    THEN {i \in DOMAIN upListed : validateUploadFile(UpFile(upListed[i])).valid}
    ELSE StatusOf(currentFiles, "valid")

\* C7 as stated: while the dialog is open the upload button is disabled
\* exactly when none of the selected files is valid.
C7_AsStated ==
    upModalOpen => (uploadBtnDisabled <=> SelectedValid = {})

\* C7 amended: every time the dialog (re)displays a selection (main.js) or, in
\* upload-modal.js, the selection or a file's validation status changes, the
\* upload button is left disabled exactly when no selected file is valid or
\* (upload-modal.js) some selected file is still being validated; a settled
\* batch with valid and invalid files leaves it enabled.
C7_ButtonAfterUpdate ==
    [][/\ (upVariant = "main" /\ upModalOpen' /\ upListed' # upListed)
            => (uploadBtnDisabled' <=> validFilesCount(upListed') = 0)
       /\ (upVariant = "modal" /\ upModalOpen' /\ currentFiles' # currentFiles)
            => (uploadBtnDisabled' <=>
                   (\/ StatusOf(currentFiles', "valid") = {}
                    \/ StatusOf(currentFiles', "validating") # {}))]_vars

\* a mixed batch: one valid and one invalid file selected, button enabled
C7_Witness ==
    /\ upModalOpen
    /\ ~uploadBtnDisabled
    /\ \/ /\ upVariant = "main"
          /\ upListed = <<"A", "B">>
       \/ /\ upVariant = "modal"
          /\ Len(currentFiles) = 2
          /\ currentFiles[1].st = "invalid"
          /\ currentFiles[2].st = "valid"

(***************************************************************************)
(* The parse flow, main.js: parseAccountRow, the parse dialog, the poller  *)
(* of startParseProgressPolling and refreshAccountAfterParse.  The status  *)
(* a progress response carries is the status the backend holds when the    *)
(* response is delivered.                                                  *)
(***************************************************************************)
RECURSIVE SumTo(_, _)
SumTo(f, n) == IF n < 0 THEN 0 ELSE f[n] + SumTo(f, n - 1)

\* progress requests issued by the interval of parse p and not yet answered
InFlight(p) == SumTo(progNet[p], MaxParses)

Terminal == {"completed", "error"}

\* parses are numbered in the order of the clicks that start them
NextToStart(p) ==
    psStage[p] = "idle" /\ (IF p = 1 THEN TRUE ELSE psStage[p - 1] # "idle")

\* the parse started last: the dialog on the page, if any, is its dialog
Latest ==
    IF psStage[1] = "idle" THEN 0
    ELSE CHOOSE p \in Parses :
            psStage[p] # "idle" /\ \A q \in Parses : q > p => psStage[q] = "idle"

\* counts a terminal progress response may carry
ProgressCounts == [files_processed : 0..1, files_skipped : 0..1]

NoCounts == [files_processed |-> 0, files_skipped |-> 0]

Bump(n) == IF n < MaxCompletions THEN n + 1 ELSE n

\* one more request issued
Sent == (psSent + 1) % 2

psDom == <<parseModalOpen, parseCloseBtnDisabled, parseResultsShown>>
psGlobals == <<currentParseSession, parseProgressInterval, reloadPending>>
psRefresh == <<refNet, loadTimers, loadNet>>

\* main.js showParseResults(result): what #parseResults shows afterwards
showParseResults(result) ==
    IF ~parseModalOpen THEN parseResultsShown
    ELSE IF result.success /\ result.files_processed = 0 /\ result.files_skipped > 0
         THEN "allcurrent"
    ELSE IF result.success THEN "success"
    ELSE "failed"

\* a click on an account's Parse button: showParseModal, then the
\* synchronous part of startParseOperation
parseAccountRow(p) ==
    /\ psVariant = "main"
    /\ NextToStart(p)
    /\ ~parseModalOpen
    /\ parseModalOpen' = TRUE
    /\ parseResultsShown' = "hidden"
    /\ parseCloseBtnDisabled' = TRUE
    /\ psStage' = [psStage EXCEPT ![p] = "starting"]
    /\ psSent' = Sent
    /\ UNCHANGED <<psVariant, psSid, psInterval, progNet, backend, completions,
                   psGlobals, psRefresh, clStage, nonPsVars>>

\* variant of the handler below that also stops the pollers
parseModalHidden_ClearsInterval ==
    /\ psVariant = "main"
    /\ parseModalOpen
    /\ parseModalOpen' = FALSE
    /\ parseResultsShown' = "hidden"
    /\ parseCloseBtnDisabled' = FALSE
    /\ psInterval' = [p \in Parses |-> FALSE]
    /\ UNCHANGED <<psVariant, psSent, psStage, psSid, progNet, backend,
                   completions, psGlobals, psRefresh, clStage, nonPsVars>>

\* the header X, Esc or the backdrop closes the dialog: hidden.bs.modal
\* removes #parseModal from the document
parseModalHidden ==
    /\ psVariant = "main"
    /\ parseModalOpen
    /\ parseModalOpen' = FALSE
    /\ parseResultsShown' = "hidden"
    /\ parseCloseBtnDisabled' = FALSE
    /\ UNCHANGED <<psVariant, psSent, psStage, psSid, psInterval, progNet, backend,
                   completions, psGlobals, psRefresh, clStage, nonPsVars>>

\* StatementsAPI.parseAccount resolves only with success and a session_id
StartOutcomes == {"ok", "nosession", "rejected", "network"}

\* the promise of startParseOperation settles
parseAccountSettled(p, outcome) ==
    /\ psVariant = "main"
    /\ psStage[p] = "starting"
    /\ IF outcome = "ok"
       THEN /\ psStage' = [psStage EXCEPT ![p] = "polling"]
            /\ psSid' = [psSid EXCEPT ![p] = p]
            /\ backend' = [backend EXCEPT ![p] = "in_progress"]
            /\ psInterval' = [psInterval EXCEPT ![p] = TRUE]
            /\ UNCHANGED psDom
       ELSE /\ psStage' = [psStage EXCEPT ![p] = "startFailed"]
            /\ parseResultsShown' =
                   showParseResults([success |-> FALSE] @@ NoCounts)
            /\ parseCloseBtnDisabled' =
                   IF parseModalOpen /\ Latest = p THEN FALSE
                   ELSE parseCloseBtnDisabled
            /\ UNCHANGED <<psSid, backend, psInterval, parseModalOpen>>
    /\ UNCHANGED <<psVariant, psSent, progNet, completions, psGlobals, psRefresh,
                   clStage, nonPsVars>>

\* the interval of startParseProgressPolling fires: getParseProgress(sessionId)
progressIntervalFires(p) ==
    /\ psVariant = "main"
    /\ psInterval[p]
    /\ InFlight(p) < MaxInFlight
    /\ progNet' = [progNet EXCEPT ![p][psSid[p]] = @ + 1]
    /\ psSent' = Sent
    /\ UNCHANGED <<psVariant, psStage, psSid, psInterval, backend, completions,
                   psDom, psGlobals, psRefresh, clStage, nonPsVars>>

\* variant of the handler below that leaves #parseResults alone
handleParseCompletion_NoResults(p, status, counts) ==
    /\ psStage' = [psStage EXCEPT ![p] = status]
    /\ completions' = [completions EXCEPT ![p] = Bump(@)]
    /\ refNet' = IF status = "completed" THEN refNet + 1 ELSE refNet
    /\ psSent' = IF status = "completed" THEN Sent ELSE psSent
    /\ parseCloseBtnDisabled' =
           IF parseModalOpen THEN FALSE ELSE parseCloseBtnDisabled
    /\ UNCHANGED parseResultsShown

\* handleParseCompletion(progress, accountId), with refreshAccountAfterParse
\* issuing its refresh-inventory request
handleParseCompletion(p, status, counts) ==
    /\ psStage' = [psStage EXCEPT ![p] = status]
    /\ completions' = [completions EXCEPT ![p] = Bump(@)]
    /\ parseResultsShown' =
           showParseResults([success |-> status = "completed"] @@ counts)
    /\ refNet' = IF status = "completed" THEN refNet + 1 ELSE refNet
    /\ psSent' = IF status = "completed" THEN Sent ELSE psSent
    /\ parseCloseBtnDisabled' =
           IF parseModalOpen THEN FALSE ELSE parseCloseBtnDisabled

ProgressOutcomes == {"ok", "rejected", "network"}

\* variant of the handler below whose failure branch keeps the interval
getParseProgressSettled_KeepsPolling(p, outcome, counts) ==
    /\ psVariant = "main"
    /\ progNet[p][psSid[p]] > 0
    /\ progNet' = [progNet EXCEPT ![p][psSid[p]] = @ - 1]
    /\ IF outcome = "ok" /\ backend[psSid[p]] \in Terminal
       THEN /\ psInterval' = [psInterval EXCEPT ![p] = FALSE]
            /\ handleParseCompletion(p, backend[psSid[p]], counts)
       ELSE IF outcome = "ok"
       THEN UNCHANGED <<psInterval, psStage, completions, parseResultsShown,
                        parseCloseBtnDisabled, refNet, psSent>>
       ELSE /\ psStage' = [psStage EXCEPT ![p] =
                              IF @ = "polling" THEN "pollFailed" ELSE @]
            /\ UNCHANGED <<psInterval, completions, parseResultsShown,
                           parseCloseBtnDisabled, refNet, psSent>>
    /\ UNCHANGED <<psVariant, psSid, backend, parseModalOpen, psGlobals,
                   loadTimers, loadNet, clStage, nonPsVars>>

\* a progress request of the poller of parse p is answered: the then / catch
\* of the interval callback
getParseProgressSettled(p, outcome, counts) ==
    /\ psVariant = "main"
    /\ progNet[p][psSid[p]] > 0
    /\ progNet' = [progNet EXCEPT ![p][psSid[p]] = @ - 1]
    /\ IF outcome = "ok" /\ backend[psSid[p]] \in Terminal
       THEN /\ psInterval' = [psInterval EXCEPT ![p] = FALSE]
            /\ handleParseCompletion(p, backend[psSid[p]], counts)
       ELSE IF outcome = "ok"
       THEN UNCHANGED <<psInterval, psStage, completions, parseResultsShown,
                        parseCloseBtnDisabled, refNet, psSent>>
       ELSE /\ psInterval' = [psInterval EXCEPT ![p] = FALSE]
            /\ psStage' = [psStage EXCEPT ![p] =
                              IF @ = "polling" THEN "pollFailed" ELSE @]
            /\ UNCHANGED <<completions, parseResultsShown,
                           parseCloseBtnDisabled, refNet, psSent>>
    /\ UNCHANGED <<psVariant, psSid, backend, parseModalOpen, psGlobals,
                   loadTimers, loadNet, clStage, nonPsVars>>

\* the backend finishes the parse of session s
backendFinishes(s, status) ==
    /\ backend[s] = "in_progress"
    /\ backend' = [backend EXCEPT ![s] = status]
    /\ UNCHANGED <<psVariant, psSent, psStage, psSid, psInterval, progNet, completions,
                   psDom, psGlobals, psRefresh, clStage, nonPsVars>>

RequestOutcomes == {"ok", "network"}

\* refreshAccountAfterParse: the refresh-inventory request is answered; the
\* catch loads the account at once, the then after a 2s timer
refreshInventorySettled(outcome) ==
    /\ psVariant = "main"
    /\ refNet > 0
    /\ refNet' = refNet - 1
    /\ IF outcome = "ok"
       THEN loadTimers' = loadTimers + 1 /\ UNCHANGED loadNet
       ELSE loadNet' = loadNet + 1 /\ UNCHANGED loadTimers
    /\ psSent' = IF outcome = "ok" THEN psSent ELSE Sent
    /\ UNCHANGED <<psVariant, psStage, psSid, psInterval, progNet, backend,
                   completions, psDom, psGlobals, clStage, nonPsVars>>

\* refreshAccountAfterParse: the 2s timer fires, loadAccount(accountId)
loadTimerFires ==
    /\ psVariant = "main"
    /\ loadTimers > 0
    /\ loadTimers' = loadTimers - 1
    /\ loadNet' = loadNet + 1
    /\ psSent' = Sent
    /\ UNCHANGED <<psVariant, psStage, psSid, psInterval, progNet, backend,
                   completions, psDom, psGlobals, refNet, clStage, nonPsVars>>

\* refreshAccountAfterParse: loadAccount is answered
loadAccountSettled(outcome) ==
    /\ psVariant = "main"
    /\ loadNet > 0
    /\ loadNet' = loadNet - 1
    /\ UNCHANGED <<psVariant, psSent, psStage, psSid, psInterval, progNet, backend,
                   completions, psDom, psGlobals, refNet, loadTimers, clStage,
                   nonPsVars>>

(***************************************************************************)
(* The parse flow, api.js unified frontend: one dialog from the page       *)
(* template, the globals currentParseSession and parseProgressInterval     *)
(***************************************************************************)
\* parseAccount(accountId): showParseModal and the start request
parseAccount(p) ==
    /\ psVariant = "unified"
    /\ NextToStart(p)
    /\ ~parseModalOpen
    /\ parseModalOpen' = TRUE
    /\ psStage' = [psStage EXCEPT ![p] = "starting"]
    /\ psSent' = Sent
    /\ UNCHANGED <<psVariant, psSid, psInterval, progNet, backend, completions,
                   parseCloseBtnDisabled, parseResultsShown, psGlobals,
                   psRefresh, clStage, nonPsVars>>

\* the user dismisses the Bootstrap modal held in window.parseModalInstance
dismissParseModal ==
    /\ psVariant = "unified"
    /\ parseModalOpen
    /\ parseModalOpen' = FALSE
    /\ UNCHANGED <<psVariant, psSent, psStage, psSid, psInterval, progNet, backend,
                   completions, parseCloseBtnDisabled, parseResultsShown,
                   psGlobals, psRefresh, clStage, nonPsVars>>

\* the start request of parseAccount is answered; on data.success
\* currentParseSession = data.session_id and startProgressTracking()
parseAccountThen(p, outcome) ==
    /\ psVariant = "unified"
    /\ psStage[p] = "starting"
    /\ IF outcome = "ok"
       THEN /\ psStage' = [psStage EXCEPT ![p] = "polling"]
            /\ psSid' = [psSid EXCEPT ![p] = p]
            /\ backend' = [backend EXCEPT ![p] = "in_progress"]
            /\ currentParseSession' = p
            /\ psInterval' = [psInterval EXCEPT ![p] = TRUE]
            /\ parseProgressInterval' = p
            /\ UNCHANGED parseModalOpen
       ELSE IF outcome = "nosession"
       THEN /\ psStage' = [psStage EXCEPT ![p] = "nosession"]
            /\ currentParseSession' = 0
            /\ UNCHANGED <<psSid, backend, psInterval, parseProgressInterval,
                           parseModalOpen>>
       ELSE /\ psStage' = [psStage EXCEPT ![p] = "startFailed"]
            /\ parseModalOpen' = FALSE
            /\ UNCHANGED <<psSid, backend, psInterval, currentParseSession,
                           parseProgressInterval>>
    /\ UNCHANGED <<psVariant, psSent, progNet, completions, parseCloseBtnDisabled,
                   parseResultsShown, reloadPending, psRefresh, clStage,
                   nonPsVars>>

\* an interval of startProgressTracking fires: it requests the progress of
\* whatever currentParseSession holds now
trackingIntervalFires(p) ==
    /\ psVariant = "unified"
    /\ psInterval[p]
    /\ InFlight(p) < MaxInFlight
    /\ progNet' = [progNet EXCEPT ![p][currentParseSession] = @ + 1]
    /\ psSent' = Sent
    /\ UNCHANGED <<psVariant, psStage, psSid, psInterval, backend, completions,
                   psDom, psGlobals, psRefresh, clStage, nonPsVars>>

\* stopProgressTracking(): clears the interval the global holds
stopProgressTracking ==
    /\ psInterval' = IF parseProgressInterval = 0 THEN psInterval
                     ELSE [psInterval EXCEPT ![parseProgressInterval] = FALSE]
    /\ parseProgressInterval' = 0

\* showParseResults(progress) of api.js: the alert is chosen by progress.status
\* alone; the counts only fill in "Successfully processed N files"
showParseResultsUnified(status, counts) ==
    IF status = "completed" THEN "success" ELSE "failed"

\* a progress request issued by interval p for session s is answered
\* with the counts the progress object carries
trackingResponse(p, s, outcome, counts) ==
    /\ psVariant = "unified"
    /\ progNet[p][s] > 0
    /\ outcome = "ok" => s # 0
    /\ progNet' = [progNet EXCEPT ![p][s] = @ - 1]
    /\ IF outcome = "ok" /\ backend[s] \in Terminal
       THEN /\ stopProgressTracking
            /\ psStage' = [psStage EXCEPT ![s] = backend[s]]
            /\ completions' = [completions EXCEPT ![s] = Bump(@)]
            /\ parseResultsShown' = showParseResultsUnified(backend[s], counts)
            /\ reloadPending' = TRUE
            /\ UNCHANGED parseModalOpen
       ELSE IF outcome = "ok"
       THEN UNCHANGED <<psInterval, parseProgressInterval, psStage, completions,
                        parseResultsShown, reloadPending, parseModalOpen>>
       ELSE /\ stopProgressTracking
            /\ psStage' = IF s # 0 /\ psStage[s] = "polling"
                          THEN [psStage EXCEPT ![s] = "pollFailed"]
                          ELSE psStage
            /\ parseModalOpen' =
                   IF outcome = "rejected" THEN FALSE ELSE parseModalOpen
            /\ UNCHANGED <<completions, parseResultsShown, reloadPending>>
    /\ UNCHANGED <<psVariant, psSent, psSid, backend, parseCloseBtnDisabled,
                   currentParseSession, psRefresh, clStage, nonPsVars>>

\* showParseResults: after 3s hideParseModal() and refreshPage(), which
\* reloads the page: timers, globals and pending responses are gone
refreshPage ==
    /\ psVariant = "unified"
    /\ reloadPending
    /\ reloadPending' = FALSE
    /\ parseModalOpen' = FALSE
    /\ parseResultsShown' = "hidden"
    /\ currentParseSession' = 0
    /\ parseProgressInterval' = 0
    /\ psInterval' = [p \in Parses |-> FALSE]
    /\ progNet' = [p \in Parses |-> [s \in SessionIds |-> 0]]
    /\ psStage' = [p \in Parses |->
                      IF psStage[p] \in {"starting", "polling", "nosession"}
                      THEN "abandoned" ELSE psStage[p]]
    /\ UNCHANGED <<psVariant, psSent, psSid, backend, completions,
                   parseCloseBtnDisabled, psRefresh, clStage, nonPsVars>>

(***************************************************************************)
(* ProgressiveCalendarLoader: cached request, progressive request, regular *)
(* request                                                                 *)
(***************************************************************************)
clVarsRest == <<psVariant, psStage, psSid, psInterval, progNet, backend,
                completions, psDom, psGlobals, psRefresh, nonPsVars>>

\* loadCalendarProgressive(year): returns at once while isLoading
loadCalendarProgressive ==
    /\ psVariant = "calendar"
    /\ clStage \in {"idle", "rendered", "failed"}
    /\ clStage' = "cached"
    /\ psSent' = Sent
    /\ UNCHANGED clVarsRest

CachedOutcomes == {"hit", "empty", "http", "network"}

\* loadWithProgress: the calendar-cached request is answered
loadWithProgress(outcome) ==
    /\ psVariant = "calendar"
    /\ clStage = "cached"
    /\ clStage' = CASE outcome = "hit" -> "rendered"
                    [] outcome \in {"empty", "http"} -> "progressive"
                    [] OTHER -> "failed"
    /\ psSent' = IF outcome \in {"empty", "http"} THEN Sent ELSE psSent
    /\ UNCHANGED clVarsRest

StreamOutcomes == {"ok", "http", "network"}

\* loadProgressivelyFromAPI: the calendar-progressive request is answered;
\* its catch calls fallbackToRegularLoad
loadProgressivelyFromAPI(outcome) ==
    /\ psVariant = "calendar"
    /\ clStage = "progressive"
    /\ clStage' = IF outcome = "ok" THEN "rendered" ELSE "regular"
    /\ psSent' = IF outcome = "ok" THEN psSent ELSE Sent
    /\ UNCHANGED clVarsRest

RegularOutcomes == {"ok", "nodata", "network"}

\* fallbackToRegularLoad: the calendar request is answered
fallbackToRegularLoad(outcome) ==
    /\ psVariant = "calendar"
    /\ clStage = "regular"
    /\ clStage' = IF outcome = "ok" THEN "rendered" ELSE "failed"
    /\ UNCHANGED <<clVarsRest, psSent>>

(***************************************************************************)
(* Specifications of the parse flow                                        *)
(***************************************************************************)
psInit ==
    /\ cfIdle
    /\ upIdle
    /\ otherIdle
    /\ \E v \in {"main", "unified", "calendar"} : psStart(v)

NextParseMain ==
    \/ \E p \in Parses : parseAccountRow(p)
    \/ parseModalHidden
    \/ \E p \in Parses : \E o \in StartOutcomes : parseAccountSettled(p, o)
    \/ \E p \in Parses : progressIntervalFires(p)
    \/ \E p \in Parses : \E o \in ProgressOutcomes : \E c \in ProgressCounts :
          getParseProgressSettled(p, o, c)
    \/ \E s \in Parses : \E st \in Terminal : backendFinishes(s, st)
    \/ \E o \in RequestOutcomes : refreshInventorySettled(o)
    \/ loadTimerFires
    \/ \E o \in RequestOutcomes : loadAccountSettled(o)

NextParse ==
    \/ NextParseMain
    \/ \E p \in Parses : parseAccount(p)
    \/ dismissParseModal
    \/ \E p \in Parses : \E o \in StartOutcomes : parseAccountThen(p, o)
    \/ \E p \in Parses : trackingIntervalFires(p)
    \/ \E p \in Parses : \E s \in SessionIds : \E o \in ProgressOutcomes :
       \E c \in ProgressCounts : trackingResponse(p, s, o, c)
    \/ refreshPage
    \/ loadCalendarProgressive
    \/ \E o \in CachedOutcomes : loadWithProgress(o)
    \/ \E o \in StreamOutcomes : loadProgressivelyFromAPI(o)
    \/ \E o \in RegularOutcomes : fallbackToRegularLoad(o)

SpecParse == psInit /\ [][NextParse]_vars

\* the main.js page with timers that fire and requests that are answered
psInitMain == cfIdle /\ upIdle /\ otherIdle /\ psStart("main")

LiveParse ==
    /\ psInitMain
    /\ [][NextParseMain]_vars
    /\ \A p \in Parses :
          /\ WF_vars(\E o \in StartOutcomes : parseAccountSettled(p, o))
          /\ WF_vars(progressIntervalFires(p))
          /\ WF_vars(\E o \in ProgressOutcomes : \E c \in ProgressCounts :
                        getParseProgressSettled(p, o, c))
          /\ WF_vars(\E st \in Terminal : backendFinishes(p, st))
    /\ WF_vars(\E o \in RequestOutcomes : refreshInventorySettled(o))
    /\ WF_vars(loadTimerFires)
    /\ WF_vars(\E o \in RequestOutcomes : loadAccountSettled(o))

(***************************************************************************)
(* C2 - C6: the parse session                                              *)
(***************************************************************************)
\* C2: a progress request is in flight only for a parse whose start request
\* succeeded with a session_id, and it carries that parse's session_id.
C2_ProgressForOwnSession ==
    \A p \in Parses : \A s \in SessionIds :
        progNet[p][s] > 0 =>
            /\ psStage[p] \notin {"idle", "starting", "startFailed", "nosession"}
            /\ psSid[p] # 0
            /\ s = psSid[p]

\* C3: once a terminal status has been observed for a session, no further
\* progress request is issued for that session.
C3_NoRequestAfterTerminal ==
    [][\A s \in Parses :
          psStage[s] \in Terminal =>
              \A p \in Parses : progNet'[p][s] <= progNet[p][s]]_vars

\* C4 as stated (main.js): a parse that reached polling, unless one of its
\* progress requests fails, ends with the terminal status observed, its
\* interval cleared and the counts or the error message rendered.
C4_AsStated ==
    \A p \in Parses :
        (psStage[p] = "polling") ~>
            \/ psStage[p] = "pollFailed"
            \/ /\ psStage[p] \in Terminal
               /\ ~psInterval[p]
               /\ parseResultsShown # "hidden"

\* C4 amended (main.js): a parse that reached polling, unless one of its
\* progress requests fails, ends with the terminal status observed and its
\* interval cleared; the counts or the error message are rendered if a parse
\* dialog is on the page at that time.
C4_TerminalReached ==
    \A p \in Parses :
        (psStage[p] = "polling") ~>
            \/ psStage[p] = "pollFailed"
            \/ /\ psStage[p] \in Terminal
               /\ ~psInterval[p]
               /\ parseModalOpen => parseResultsShown # "hidden"

\* a session ended while its dialog was closed: nothing is rendered
C4_Witness ==
    /\ psVariant = "main"
    /\ psStage[1] = "completed"
    /\ completions[1] > 0
    /\ ~psInterval[1]
    /\ ~parseModalOpen
    /\ parseResultsShown = "hidden"

\* C5 (main.js): a poll interval goes from active to cleared only in a step
\* that handles a terminal progress response or a failed progress request of
\* that poller; closing the dialog leaves every interval as it is.
C5_ClearedOnlyOnTerminalOrFailure ==
    [][psVariant = "main" =>
          /\ \A p \in Parses :
                (psInterval[p] /\ ~psInterval'[p]) =>
                    /\ InFlight(p)' < InFlight(p)
                    /\ psStage'[p] \in Terminal \cup {"pollFailed"}
          /\ (parseModalOpen /\ ~parseModalOpen') => psInterval' = psInterval]_vars

\* the dialog was closed during polling and the poller goes on requesting
C5_Witness ==
    /\ psVariant = "main"
    /\ ~parseModalOpen
    /\ psStage[1] = "polling"
    /\ psInterval[1]
    /\ progNet[1][1] = MaxInFlight

\* requests in flight that the page has issued
Requests ==
    Cardinality({p \in Parses : psStage[p] = "starting"})
    + SumTo([n \in 0..MaxParses |-> IF n = 0 THEN 0 ELSE InFlight(n)], MaxParses)
    + refNet + loadNet
    + (IF clStage \in {"cached", "progressive", "regular"} THEN 1 ELSE 0)

\* the step consumes an answer and issues nothing / issues one request
NoRequest == psSent' = psSent /\ Requests' < Requests
OneRequest == psSent' # psSent /\ Requests' = Requests

\* steps in which main.js or the calendar loader handles a failed request
FailedStart == \E p \in Parses : \E o \in StartOutcomes \ {"ok"} :
                   parseAccountSettled(p, o)
FailedPoll(p) == \E o \in ProgressOutcomes \ {"ok"} : \E c \in ProgressCounts :
                   getParseProgressSettled(p, o, c)
FailedRefresh == refreshInventorySettled("network")
FailedLoad == loadAccountSettled("network")
FailedCached == loadWithProgress("http")
FailedCachedFetch == loadWithProgress("network")
FailedStream == \E o \in StreamOutcomes \ {"ok"} : loadProgressivelyFromAPI(o)
FailedRegular == \E o \in RegularOutcomes \ {"ok"} : fallbackToRegularLoad(o)

Counts == {0, 5, 1500}

FileRecords ==
    {NoFile} \cup [present : {TRUE}, transaction_count : Counts,
                   parse_status : {"parsed", "pending"}]

\* MonthRecord as the frontend reads it: the sub-records, the root-level
\* transaction_count that setParseStatus reads, and the status and file_count
\* fields that updateMonthCell and handleMonthClick test
MonthRecords ==
    {NoMonth} \cup
    [xlsx : FileRecords, pdf : FileRecords, transaction_count : {0, 7},
     status : {"available", "missing"}, file_count : {0, 1, 2}]

AccountTypes == {"stp", "bbva"}

\* monthData.file_count and monthData.status
file_count(monthData) == monthData.file_count

status(monthData) == monthData.status

\* the test of updateMonthCell and handleMonthClick for a month without files
isEmptyMonth(monthData) ==
    monthData = NoMonth \/ status(monthData) = "missing"
                       \/ file_count(monthData) = 0

\* a MonthRecord whose status and file_count agree with its sub-records
Consistent(monthData) ==
    LET n == (IF monthData.xlsx.present THEN 1 ELSE 0)
             + (IF monthData.pdf.present THEN 1 ELSE 0)
    IN  /\ monthData # NoMonth
        /\ file_count(monthData) = n
        /\ status(monthData) = IF n = 0 THEN "missing" ELSE "available"

\* StatementsUI.formatCount(count); toFixed(1) keeps tenths of the unit
formatCount(count) ==
    IF count = 0 THEN Dash
    ELSE IF count < 1000 THEN [unit |-> "", value |-> count]
    ELSE IF count < 1000000 THEN [unit |-> "k", value |-> (count + 50) \div 100]
    ELSE [unit |-> "M", value |-> (count + 50000) \div 100000]

\* StatementsUI.setFileIcon: the icons put into the file icon element
setFileIcon(monthData) ==
    IF monthData.xlsx.present /\ monthData.pdf.present
    THEN {"fa-file-excel", "fa-file-pdf"}
    ELSE IF monthData.xlsx.present THEN {"fa-file-excel"}
    ELSE IF monthData.pdf.present THEN {"fa-file-pdf"}
    ELSE {}

\* what setParseStatus leaves in the db icon and the count element
ParseStatus(isParsed, totalTransactionCount) ==
    [dbIcon |-> IF isParsed THEN "db-parsed" ELSE "db-loaded",
     count |-> IF isParsed /\ totalTransactionCount > 0
               THEN formatCount(totalTransactionCount) ELSE Dash]

\* a sub-record that is there and has a transaction count or is parsed
Counted(f) ==
    f.present /\ (f.transaction_count > 0 \/ f.parse_status = "parsed")

\* StatementsUI.setParseStatus, first version of ui.js
setParseStatusFirst(monthData) ==
    LET x == monthData.xlsx.present /\ monthData.xlsx.transaction_count # 0
        p == monthData.pdf.present /\ monthData.pdf.transaction_count # 0
    IN ParseStatus(x \/ p,
                   (IF x THEN monthData.xlsx.transaction_count ELSE 0)
                   + (IF p THEN monthData.pdf.transaction_count ELSE 0))

\* StatementsUI.setParseStatus, production version of ui.js
setParseStatus(monthData, accountType) ==
    LET x == Counted(monthData.xlsx)
        p == IF accountType = "stp"
             THEN monthData.pdf.present /\ monthData.pdf.parse_status = "parsed"
             ELSE Counted(monthData.pdf)
        parsed == x \/ p
        total == (IF x THEN monthData.xlsx.transaction_count ELSE 0)
                 + (IF p /\ accountType # "stp"
                    THEN monthData.pdf.transaction_count ELSE 0)
    IN IF ~parsed /\ monthData.transaction_count > 0
       THEN ParseStatus(TRUE, monthData.transaction_count)
       ELSE ParseStatus(parsed, total)

\* StatementsUI.updateMonthCell(accountId, month, monthData) after the
\* account's data has been loaded
updateMonthCell ==
    /\ mcRendered' = TRUE
    /\ IF isEmptyMonth(mcMonthData)
       THEN /\ mcClass' = "month-cell no-file"
            /\ mcIcon' = {}
            /\ mcDbIcon' = "db-not-loaded"
            /\ mcCount' = Dash
       ELSE LET ps == IF mcVersion = "first"
                      THEN setParseStatusFirst(mcMonthData)
                      ELSE setParseStatus(mcMonthData, mcAccountType)
            IN /\ mcClass' = "month-cell"
               /\ mcIcon' = setFileIcon(mcMonthData)
               /\ mcDbIcon' = ps.dbIcon
               /\ mcCount' = ps.count
    /\ UNCHANGED <<mcVersion, mcHandler, mcAccountType, mcMonthData, mcModal,
                   mcDownloads, mcClicks, nonMcVars>>

\* clicks on the cell that are followed
MaxClicks == 2

\* main.js downloadMonthFile(accountId, month): decides from the cell's class
\* and the icons in it
downloadMonthFile ==
    LET hasFiles == mcClass # "month-cell no-file"
        hasExcel == "fa-file-excel" \in mcIcon
        hasPdf == "fa-file-pdf" \in mcIcon
    IN IF ~hasFiles THEN UNCHANGED <<mcModal, mcDownloads>>
       ELSE IF mcAccountType = "stp" /\ hasExcel /\ hasPdf
       THEN mcModal' = TRUE /\ UNCHANGED mcDownloads
       ELSE IF hasExcel /\ ~hasPdf
       THEN mcDownloads' = Append(mcDownloads, "xlsx") /\ UNCHANGED mcModal
       ELSE IF hasPdf
       THEN mcDownloads' = Append(mcDownloads, "pdf") /\ UNCHANGED mcModal
       ELSE UNCHANGED <<mcModal, mcDownloads>>

\* api.js Downloads.handleMonthClick(accountId, month): decides from the
\* cached account data
handleMonthClick ==
    LET hasExcel == mcMonthData.xlsx.present
        hasPdf == mcMonthData.pdf.present
    IN IF ~mcRendered THEN UNCHANGED <<mcModal, mcDownloads>>
       ELSE IF isEmptyMonth(mcMonthData)
       THEN UNCHANGED <<mcModal, mcDownloads>>
       ELSE IF hasExcel /\ hasPdf
       THEN mcModal' = TRUE /\ UNCHANGED mcDownloads
       ELSE IF hasExcel
       THEN mcDownloads' = Append(mcDownloads, "xlsx") /\ UNCHANGED mcModal
       ELSE IF hasPdf
       THEN mcDownloads' = Append(mcDownloads, "pdf") /\ UNCHANGED mcModal
       ELSE UNCHANGED <<mcModal, mcDownloads>>

\* the user clicks the month cell
monthCellClick ==
    /\ ~mcModal
    /\ mcClicks < MaxClicks
    /\ mcClicks' = mcClicks + 1
    /\ IF mcHandler = "main" THEN downloadMonthFile ELSE handleMonthClick
    /\ UNCHANGED <<mcVersion, mcHandler, mcAccountType, mcMonthData, mcRendered,
                   mcClass, mcIcon, mcDbIcon, mcCount, nonMcVars>>

\* the user picks a file type in the selection modal: downloadFileFromModal,
\* or downloadFile and Modals.hide
downloadFileFromModal(fileType) ==
    /\ mcModal
    /\ mcModal' = FALSE
    /\ mcDownloads' = Append(mcDownloads, fileType)
    /\ UNCHANGED <<mcVersion, mcHandler, mcAccountType, mcMonthData, mcRendered,
                   mcClass, mcIcon, mcDbIcon, mcCount, mcClicks, nonMcVars>>

\* the user dismisses the selection modal
dismissSelectionModal ==
    /\ mcModal
    /\ mcModal' = FALSE
    /\ UNCHANGED <<mcVersion, mcHandler, mcAccountType, mcMonthData, mcRendered,
                   mcClass, mcIcon, mcDbIcon, mcCount, mcDownloads, mcClicks,
                   nonMcVars>>

mcInit ==
    /\ cfIdle
    /\ upIdle
    /\ psIdle
    /\ ldIdle
    /\ ruIdle
    /\ rqIdle
    /\ \E v \in {"first", "production"} : \E h \in {"main", "downloads"} :
       \E t \in AccountTypes : \E m \in MonthRecords : mcStart(v, h, t, m)

NextCell ==
    \/ updateMonthCell
    \/ monthCellClick
    \/ \E t \in {"xlsx", "pdf"} : downloadFileFromModal(t)
    \/ dismissSelectionModal

SpecCell == mcInit /\ [][NextCell]_vars

(***************************************************************************)
(* C11, C15: month cells                                                   *)
(***************************************************************************)
\* C11: for an STP account whose MonthRecord has xlsx populated, the count
\* rendered in the cell is xlsx.transaction_count (as formatCount shows it),
\* with or without a pdf sub-record.
C11_StpCountIsXlsxCount ==
    (/\ mcRendered
     /\ Consistent(mcMonthData)
     /\ mcAccountType = "stp"
     /\ mcMonthData.xlsx.present)
        => mcCount = formatCount(mcMonthData.xlsx.transaction_count)

\* C15: a click on a rendered cell shows the selection modal and starts no
\* download for an STP account with both file types, starts the PDF download
\* without a modal for a BBVA account with both, starts the download of the
\* only file type there is, and starts nothing when there is no file.
C15_ClickOutcome ==
    [][(mcRendered /\ Consistent(mcMonthData) /\ mcClicks' = mcClicks + 1) =>
          LET x == mcMonthData.xlsx.present
              p == mcMonthData.pdf.present
              both == x /\ p
          IN /\ (both /\ mcAccountType = "stp")
                    => (mcModal' /\ mcDownloads' = mcDownloads)
             /\ (both /\ mcAccountType = "bbva")
                    => (~mcModal' /\ mcDownloads' = Append(mcDownloads, "pdf"))
             /\ (x /\ ~p)
                    => (~mcModal' /\ mcDownloads' = Append(mcDownloads, "xlsx"))
             /\ (p /\ ~x)
                    => (~mcModal' /\ mcDownloads' = Append(mcDownloads, "pdf"))
             /\ (~x /\ ~p)
                    => (~mcModal' /\ mcDownloads' = mcDownloads)]_vars

(***************************************************************************)
(* C12: a completed parse that processed nothing and skipped N > 0 files   *)
(***************************************************************************)
\* the poller p is handed a progress object with status completed and the
\* counts c
CompletedWith(p, c) ==
    IF psVariant = "main"
    THEN /\ psSid[p] # 0
         /\ backend[psSid[p]] = "completed"
         /\ getParseProgressSettled(p, "ok", c)
    ELSE \E s \in SessionIds \ {0} :
            backend[s] = "completed" /\ trackingResponse(p, s, "ok", c)

\* C12: when a poller of a page whose parse dialog is shown observes
\* completed with files_processed = 0 and files_skipped > 0, the results
\* area shows the success rendering with the "already up to date" message.
C12_AllCurrentRendered ==
    [][\A p \in Parses : \A c \in ProgressCounts :
          (/\ parseModalOpen
           /\ c.files_processed = 0
           /\ c.files_skipped > 0
           /\ CompletedWith(p, c)) => parseResultsShown' = "allcurrent"]_vars

(***************************************************************************)
(* Account data: single-account load and BulkLoader.loadAllFiles           *)
(***************************************************************************)
\* bulk runs that are followed
MaxRuns == 2

\* what the load-account-data request ends with: account data with months
\* and files, account data with total_files > 0 and no months, account data
\* with total_files = 0, success = false or an HTTP error, a 401/403 status,
\* a network error
LoadOutcomes == {"files", "nomonths", "empty", "failed", "unauth", "network"}

\* StatementsAPI.loadAccount resolves its promise with data.account_data
Resolves(outcome) == outcome \in {"files", "nomonths", "empty"}

Min(S) == CHOOSE a \in S : \A b \in S : a <= b

Range(q) == {q[i] : i \in 1..Len(q)}

\* StatementsApp.isAccountLoaded(accountId)
isAccountLoaded(accountId) ==
    /\ accountDataByYear[currentYear] # NoYearData
    /\ accountDataByYear[currentYear][accountId] # 0

\* the accounts with an entry in accountDataByYear[currentYear]
ldCache == {a \in Accounts : isAccountLoaded(a)}

\* ldReqYear after a request for accountId has settled: the year is kept
\* while the account's other request is in flight
Settled(accountId, otherNet) ==
    IF accountId \in otherNet THEN ldReqYear
    ELSE [ldReqYear EXCEPT ![accountId] = 0]

\* main.js loadAccountData(accountId): the Load button of an account row,
\* disabled while its request is pending; StatementsAPI.loadAccount puts
\* currentYear into the URL
loadAccountData(accountId) ==
    /\ ldLocation = "statements"
    /\ ldDialog # "loading"
    /\ accountId \notin ldSingleNet
    /\ ldSingleNet' = ldSingleNet \cup {accountId}
    /\ ldReqYear' = [ldReqYear EXCEPT ![accountId] = currentYear]
    /\ UNCHANGED <<ldLocation, ldStore, ldYear, ldCounters, ldResolved,
                   ldTimers, ldBulkNet, ldIssued, ldDialog, ldRuns, nonLdVars>>

\* the response of a single-account load: StatementsAPI.loadAccount, then the
\* then / catch of loadAccountData, which update the row and show a dialog
loadAccountDataSettled(accountId, outcome) ==
    /\ ldLocation = "statements"
    /\ accountId \in ldSingleNet
    /\ ldSingleNet' = ldSingleNet \ {accountId}
    /\ ldLocation' = IF outcome = "unauth" THEN "login" ELSE ldLocation
    /\ ldResolved' = IF Resolves(outcome) THEN ldResolved \cup {accountId}
                     ELSE ldResolved
    /\ ldReqYear' = Settled(accountId, ldBulkNet)
    /\ UNCHANGED <<ldStore, ldYear, ldCounters, ldTimers, ldBulkNet, ldIssued,
                   ldDialog, ldRuns, nonLdVars>>

\* as loadAllFiles, but without the filter on accountDataByYear
loadAllFiles_NoFilter ==
    /\ ldLocation = "statements"
    /\ ldDialog # "loading"
    /\ ldTimers = {}
    /\ ldBulkNet = {}
    /\ ldRuns < MaxRuns
    /\ ldRuns' = ldRuns + 1
    /\ ldDialog' = "loading"
    /\ ldTimers' = Accounts
    /\ ldIssued' = <<>>
    /\ ldProcessed' = 0
    /\ ldSuccessful' = 0
    /\ ldErrors' = 0
    /\ UNCHANGED <<ldLocation, ldStore, ldYear, ldReqYear, ldResolved,
                   ldSingleNet, ldBulkNet, nonLdVars>>

\* BulkLoader.loadAllFiles(): the loading dialog (static backdrop) covers the
\* page until showCompletionModal; one run is followed at a time
loadAllFiles ==
    /\ ldLocation = "statements"
    /\ ldDialog # "loading"
    /\ ldTimers = {}
    /\ ldBulkNet = {}
    /\ ldRuns < MaxRuns
    /\ ldRuns' = ldRuns + 1
    /\ LET accountsToLoad == {a \in Accounts : ~isAccountLoaded(a)}
       IN IF accountsToLoad = {}
          THEN /\ ldDialog' = "allLoaded"
               /\ UNCHANGED <<ldTimers, ldIssued, ldCounters>>
          ELSE /\ ldDialog' = "loading"
               /\ ldTimers' = accountsToLoad
               /\ ldIssued' = <<>>
               /\ ldProcessed' = 0
               /\ ldSuccessful' = 0
               /\ ldErrors' = 0
    /\ UNCHANGED <<ldLocation, ldStore, ldYear, ldReqYear, ldResolved,
                   ldSingleNet, ldBulkNet, nonLdVars>>

\* a stagger callback that waits for the earlier requests to settle
staggerTimerFires_Sequential(accountId) ==
    /\ ldBulkNet = {}
    /\ ldLocation = "statements"
    /\ accountId \in ldTimers
    /\ accountId = Min(ldTimers)
    /\ ldTimers' = ldTimers \ {accountId}
    /\ ldBulkNet' = ldBulkNet \cup {accountId}
    /\ ldIssued' = Append(ldIssued, accountId)
    /\ ldReqYear' = [ldReqYear EXCEPT ![accountId] = currentYear]
    /\ UNCHANGED <<ldLocation, ldStore, ldYear, ldCounters, ldResolved,
                   ldSingleNet, ldDialog, ldRuns, nonLdVars>>

\* the setTimeout(index * 1000) callback of loadAllFiles for accountId: the
\* timers were set in accountsToLoad order with growing delays
staggerTimerFires(accountId) ==
    /\ ldLocation = "statements"
    /\ accountId \in ldTimers
    /\ accountId = Min(ldTimers)
    /\ ldTimers' = ldTimers \ {accountId}
    /\ ldBulkNet' = ldBulkNet \cup {accountId}
    /\ ldIssued' = Append(ldIssued, accountId)
    /\ ldReqYear' = [ldReqYear EXCEPT ![accountId] = currentYear]
    /\ UNCHANGED <<ldLocation, ldStore, ldYear, ldCounters, ldResolved,
                   ldSingleNet, ldDialog, ldRuns, nonLdVars>>

\* accountsToLoad.length of the run
accountsToLoadLength == Len(ldIssued) + Cardinality(ldTimers)

\* the assignment accountDataByYear[currentYear][accountId] = accountData
StoreAccountData(store, accountId, accountData) ==
    [store EXCEPT ![currentYear] =
        [(IF @ = NoYearData THEN EmptyYearData ELSE @)
            EXCEPT ![accountId] = accountData]]

\* the then / catch of loadAllFiles for accountId.  With months and files the
\* data is stored under the year that is current now (the year object is
\* created when missing); with files and no months it is stored without that
\* test, which throws when the year has no object, and the catch handler then
\* counts the account a second time.  showCompletionModal replaces the
\* loading dialog when processed equals accountsToLoad.length.
bulkLoadSettled(accountId, outcome) ==
    /\ ldLocation = "statements"
    /\ accountId \in ldBulkNet
    /\ ldBulkNet' = ldBulkNet \ {accountId}
    /\ ldLocation' = IF outcome = "unauth" THEN "login" ELSE ldLocation
    /\ ldResolved' = IF Resolves(outcome) THEN ldResolved \cup {accountId}
                     ELSE ldResolved
    /\ LET threw == outcome = "nomonths"
                    /\ accountDataByYear[currentYear] = NoYearData
           stored == outcome \in {"files", "nomonths"} /\ ~threw
       IN /\ accountDataByYear' =
                IF stored
                THEN StoreAccountData(accountDataByYear, accountId,
                                      ldReqYear[accountId])
                ELSE accountDataByYear
          /\ ldProcessed' = IF threw THEN ldProcessed + 2 ELSE ldProcessed + 1
          /\ ldSuccessful' = IF outcome \in {"files", "nomonths"}
                             THEN ldSuccessful + 1 ELSE ldSuccessful
          /\ ldErrors' = IF stored THEN ldErrors ELSE ldErrors + 1
    /\ ldDialog' = IF ldProcessed' = accountsToLoadLength THEN "complete"
                   ELSE ldDialog
    /\ ldReqYear' = Settled(accountId, ldSingleNet)
    /\ UNCHANGED <<currentYear, ldLastOp, ldYear, ldSingleNet, ldTimers, ldIssued,
                   ldRuns, nonLdVars>>

\* the user closes the all-loaded or the completion dialog
dismissBulkDialog ==
    /\ ldLocation = "statements"
    /\ ldDialog \in {"allLoaded", "complete"}
    /\ ldDialog' = "none"
    /\ UNCHANGED <<ldLocation, ldStore, ldYear, ldReqYear, ldCounters,
                   ldResolved, ldSingleNet, ldTimers, ldBulkNet, ldIssued,
                   ldRuns, nonLdVars>>

\* the user reloads the page: config.js builds StatementsApp anew, init takes
\* the year from the path of the URL
pageReload ==
    /\ ldLocation = "statements"
    /\ currentYear' = ldHistory.url
    /\ accountDataByYear' =
          [y \in Years |-> IF y = ldHistory.url THEN EmptyYearData
                                                ELSE NoYearData]
    /\ ldSelector' = ldHistory.url
    /\ ldSelected' = ldHistory.url
    /\ ldCalendar' = ldHistory.url
    /\ ldYearNet' = {}
    /\ ldResolved' = {}
    /\ ldSingleNet' = {}
    /\ ldTimers' = {}
    /\ ldBulkNet' = {}
    /\ ldIssued' = <<>>
    /\ ldDialog' = "none"
    /\ ldReqYear' = [a \in Accounts |-> 0]
    /\ ldProcessed' = 0
    /\ ldSuccessful' = 0
    /\ ldErrors' = 0
    /\ UNCHANGED <<ldLocation, ldLastOp, ldHistory, ldRuns, nonLdVars>>

ldInit == cfIdle /\ upIdle /\ psIdle /\ mcIdle /\ ldIdle /\ ruIdle /\ rqIdle

NextLoad ==
    \/ \E a \in Accounts : loadAccountData(a)
    \/ \E a \in Accounts : \E o \in LoadOutcomes : loadAccountDataSettled(a, o)
    \/ loadAllFiles
    \/ \E a \in Accounts : staggerTimerFires(a)
    \/ \E a \in Accounts : \E o \in LoadOutcomes : bulkLoadSettled(a, o)
    \/ dismissBulkDialog
    \/ pageReload

SpecLoad == ldInit /\ [][NextLoad]_vars

(***************************************************************************)
(* The state store of config.js: getAccountData, setAccountData,           *)
(* clearAccountData                                                        *)
(***************************************************************************)
\* getAccountData's null
NotLoaded == [loaded |-> FALSE, accountData |-> 0]

\* StatementsApp.getAccountData(accountId)
getAccountData(accountId) ==
    IF ~isAccountLoaded(accountId) THEN NotLoaded
    ELSE [loaded |-> TRUE,
          accountData |-> accountDataByYear[currentYear][accountId]]

\* the page state the store functions do not touch
ldPage == <<ldLocation, currentYear, ldYear, ldReqYear, ldCounters, ldResolved,
            ldSingleNet, ldTimers, ldBulkNet, ldIssued, ldDialog, ldRuns>>

\* StatementsApp.setAccountData(accountId, accountData)
setAccountData(accountId, accountData) ==
    /\ accountDataByYear' =
          StoreAccountData(accountDataByYear, accountId, accountData)
    /\ ldLastOp' = [op |-> "set", accountId |-> accountId,
                    accountData |-> accountData]
    /\ UNCHANGED <<ldPage, nonLdVars>>

\* A plausible slip: the argument is not looked at and the whole year is
\* cleared.
clearAccountData_WholeYear(accountId) ==
    /\ accountDataByYear' =
          IF accountDataByYear[currentYear] = NoYearData
          THEN accountDataByYear
          ELSE [accountDataByYear EXCEPT ![currentYear] = EmptyYearData]
    /\ ldLastOp' = [op |-> "clear", accountId |-> accountId, accountData |-> 0]
    /\ UNCHANGED <<ldPage, nonLdVars>>

\* StatementsApp.clearAccountData(accountId); accountId 0 stands for a call
\* without an argument
clearAccountData(accountId) ==
    /\ accountDataByYear' =
          IF accountDataByYear[currentYear] = NoYearData
          THEN accountDataByYear
          ELSE IF accountId # 0
          THEN [accountDataByYear EXCEPT ![currentYear][accountId] = 0]
          ELSE [accountDataByYear EXCEPT ![currentYear] = EmptyYearData]
    /\ ldLastOp' = [op |-> "clear", accountId |-> accountId, accountData |-> 0]
    /\ UNCHANGED <<ldPage, nonLdVars>>

\* what accountDataByYear may hold for a year
YearData == {NoYearData} \cup [Accounts -> {0} \cup Years]

stInit ==
    /\ cfIdle
    /\ upIdle
    /\ psIdle
    /\ mcIdle
    /\ ruIdle
    /\ rqIdle
    /\ currentYear \in Years
    /\ accountDataByYear \in [Years -> YearData]
    /\ ldFresh

NextStore ==
    \/ \E a \in Accounts : \E d \in Years : setAccountData(a, d)
    \/ \E a \in Accounts \cup {0} : clearAccountData(a)

SpecStore == stInit /\ [][NextStore]_vars

(***************************************************************************)
(* The year selector: handleYearChange and the popstate handler (main.js)  *)
(***************************************************************************)
\* what the ui-data request of a year change ends with: success and the
\* calendar rendered, success and an exception in displayUIData, success =
\* false, an HTTP error status, a network error
YearOutcomes == {"ok", "renderThrows", "notSuccess", "httpError", "network"}

\* handleYearChange(newYear): nothing to do for the current year, else the
\* request for the new year's ui-data; oldYear stays in the closure.  A
\* request equal to one in flight is not followed separately.
handleYearChange(newYear) ==
    ldYearNet' = IF currentYear = newYear THEN ldYearNet
                 ELSE ldYearNet \cup {[newYear |-> newYear,
                                       oldYear |-> currentYear]}

\* the user picks a year in #yearSelector: its change listener
yearSelectorChange(newYear) ==
    /\ ldLocation = "statements"
    /\ ldDialog = "none"
    /\ ldSelector # newYear
    /\ ldSelector' = newYear
    /\ ldSelected' = newYear
    /\ handleYearChange(newYear)
    /\ UNCHANGED <<ldLocation, ldStore, ldCalendar, ldHistory, ldReqYear,
                   ldCounters, ldResolved, ldSingleNet, ldTimers, ldBulkNet,
                   ldIssued, ldDialog, ldRuns, nonLdVars>>

\* the browser's back or forward button takes the session history to an
\* entry of another year: the popstate listener
popstate(targetYear) ==
    /\ ldLocation = "statements"
    /\ targetYear \in ldHistory.entries
    /\ targetYear # ldHistory.url
    /\ ldHistory' = [ldHistory EXCEPT !.url = targetYear]
    /\ ldSelector' = targetYear
    /\ ldSelected' = targetYear
    /\ handleYearChange(targetYear)
    /\ UNCHANGED <<ldLocation, ldStore, ldCalendar, ldReqYear, ldCounters,
                   ldResolved, ldSingleNet, ldTimers, ldBulkNet, ldIssued,
                   ldDialog, ldRuns, nonLdVars>>

\* the then / then / catch of handleYearChange for one request.  On success
\* currentYear is set first, then the calendar is cleared and rendered and
\* the URL pushed; the catch handler puts oldYear back into the selector.
handleYearChangeSettled(request, outcome) ==
    /\ ldLocation = "statements"
    /\ request \in ldYearNet
    /\ ldYearNet' = ldYearNet \ {request}
    /\ IF outcome = "ok"
       THEN /\ currentYear' = request.newYear
            /\ ldCalendar' = request.newYear
            /\ ldHistory' = [url |-> request.newYear,
                             entries |-> ldHistory.entries
                                           \cup {request.newYear}]
            /\ UNCHANGED ldSelector
       ELSE IF outcome = "renderThrows"
       THEN /\ currentYear' = request.newYear
            /\ ldCalendar' = 0
            /\ ldSelector' = request.oldYear
            /\ UNCHANGED ldHistory
       ELSE /\ ldSelector' = request.oldYear
            /\ UNCHANGED <<currentYear, ldCalendar, ldHistory>>
    /\ ldResolved' = IF currentYear' = currentYear THEN ldResolved ELSE {}
    /\ UNCHANGED <<ldLocation, accountDataByYear, ldLastOp, ldSelected,
                   ldReqYear,
                   ldCounters, ldSingleNet, ldTimers, ldBulkNet, ldIssued,
                   ldDialog, ldRuns, nonLdVars>>

YearRequests == [newYear : Years, oldYear : Years]

\* the outcomes of a load request that differ in what the bulk run stores
\* and counts
YearLoadOutcomes == {"files", "nomonths", "failed"}

NextYear ==
    \/ \E y \in Years : yearSelectorChange(y)
    \/ \E y \in Years : popstate(y)
    \/ \E r \in YearRequests : \E o \in YearOutcomes :
          handleYearChangeSettled(r, o)
    \/ ldRuns = 0 /\ loadAllFiles
    \/ \E a \in Accounts : staggerTimerFires(a)
    \/ \E a \in Accounts : \E o \in YearLoadOutcomes : bulkLoadSettled(a, o)
    \/ dismissBulkDialog

SpecYear == ldInit /\ [][NextYear]_vars

(***************************************************************************)
(* C13, C16, C19: the account data cache and the bulk load                 *)
(***************************************************************************)
\* C13: an account whose load for the current year has succeeded, by the
\* single-account load or by the bulk load, has its data in
\* accountDataByYear[currentYear] (isAccountLoaded) until the page is reloaded.
C13_LoadedIsCached ==
    \A a \in Accounts : a \in ldResolved => isAccountLoaded(a)

\* C16: a bulk run sets timers for exactly the accounts not yet cached, and
\* shows the all-loaded dialog without any timer or request when there is
\* none; every request of the run is for an account that is not cached, was
\* not requested before in the run and comes after the accounts requested
\* before it in accountIds order.
C16_OnlyUncachedInOrder ==
    [][/\ (ldRuns' = ldRuns + 1) =>
            /\ ldBulkNet' = ldBulkNet
            /\ IF Accounts \subseteq ldCache
               THEN ldDialog' = "allLoaded" /\ ldTimers' = ldTimers
               ELSE ldDialog' = "loading" /\ ldTimers' = Accounts \ ldCache
       /\ \A a \in ldBulkNet' \ ldBulkNet :
            /\ a \notin ldCache
            /\ a \notin Range(ldIssued)
            /\ \A b \in Range(ldIssued) : b < a
            /\ ldIssued' = Append(ldIssued, a)]_vars

\* a second run that requested the two accounts the first run left uncached
C16_Witness ==
    /\ ldRuns = 2
    /\ Cardinality(ldCache) = 1
    /\ Len(ldIssued) = 2
    /\ ldBulkNet = Range(ldIssued)
    /\ ldBulkNet = Accounts \ ldCache

\* C19: the request of the next account of a bulk run can be issued whatever
\* the number of requests of the run still in flight.
C19_NoConcurrencyLimit ==
    \A a \in Accounts :
        (ldLocation = "statements" /\ a \in ldTimers /\ a = Min(ldTimers))
            => ENABLED staggerTimerFires(a)

\* two requests in flight and a third about to be issued
C19_Witness ==
    /\ Cardinality(ldBulkNet) = 2
    /\ ldTimers # {}
    /\ ENABLED staggerTimerFires(Min(ldTimers))

(***************************************************************************)
(* The calendar refresh after an upload: showUploadResults,                *)
(* refreshCalendarForUploadedFiles, storeUploadResults (main.js)           *)
(***************************************************************************)
\* results an upload response carries
MaxResults == 2

UploadResult == [success : BOOLEAN, account_name : AccountNames]

ResultLists ==
    UNION {[1..n -> UploadResult] : n \in 0..MaxResults}

\* data.successful_uploads as the backend counts it
successful_uploads(results) ==
    Cardinality({i \in DOMAIN results : results[i].success})

UploadData == [success : BOOLEAN, results : ResultLists]

\* accountsToRefresh of refreshCalendarForUploadedFiles(uploadResults)
accountsToRefresh(uploadResults) ==
    {mapAccountNameToId(uploadResults[i].account_name) :
        i \in {j \in DOMAIN uploadResults :
                  /\ uploadResults[j].success
                  /\ uploadResults[j].account_name # ""}} \ {Null}

\* refreshCalendarForUploadedFiles: one refreshSingleAccountCalendar, that is
\* one loadAccount call, per member of accountsToRefresh
refreshCalendarForUploadedFiles(uploadResults, fetches) ==
    [t \in Targets |->
        IF t \in accountsToRefresh(uploadResults) THEN fetches[t] + 1
        ELSE fetches[t]]

\* main.js showUploadModal and the hidden.bs.modal handler that removes it
uploadModalShown ==
    /\ ~ruDom
    /\ ruDom' = TRUE
    /\ UNCHANGED <<ruInFlight, ruHandled, ruData, ruFetches, ruStored,
                   ruUploads, nonRuVars>>

uploadModalHidden ==
    /\ ruDom
    /\ ruDom' = FALSE
    /\ UNCHANGED <<ruInFlight, ruHandled, ruData, ruFetches, ruStored,
                   ruUploads, nonRuVars>>

\* main.js startUpload: the fetch of /api/statements/upload
uploadRequested ==
    /\ ruDom
    /\ ~ruInFlight
    /\ ruUploads < MaxUploads
    /\ ruUploads' = ruUploads + 1
    /\ ruInFlight' = TRUE
    /\ UNCHANGED <<ruDom, ruHandled, ruData, ruFetches, ruStored, nonRuVars>>

\* as showUploadResults, but refreshing also when the results elements are gone
showUploadResults_NoDomCheck(data) ==
    IF data.success /\ successful_uploads(data.results) > 0
    THEN refreshCalendarForUploadedFiles(data.results, NoFetches)
    ELSE NoFetches

\* main.js showUploadResults(data): the loadAccount calls it leads to
showUploadResults(data) ==
    IF ~ruDom THEN NoFetches
    ELSE IF data.success /\ successful_uploads(data.results) > 0
    THEN refreshCalendarForUploadedFiles(data.results, NoFetches)
    ELSE NoFetches

\* main.js startUpload: the then handler of the fetch, with the response data:
\* showUploadResults(data) and storeUploadResults(data)
startUploadThen(data) ==
    /\ ruInFlight
    /\ ruInFlight' = FALSE
    /\ ruHandled' = TRUE
    /\ ruData' = data
    /\ ruFetches' = showUploadResults(data)
    /\ ruStored' = IF data.success
                   THEN [present |-> TRUE, results |-> data.results]
                   ELSE ruStored
    /\ UNCHANGED <<ruDom, ruUploads, nonRuVars>>

\* main.js startUpload: the catch handler (HTTP status not ok, network error)
startUploadCatch ==
    /\ ruInFlight
    /\ ruInFlight' = FALSE
    /\ ruHandled' = TRUE
    /\ ruData' = NoData
    /\ ruFetches' = showUploadResults(NoData)
    /\ UNCHANGED <<ruDom, ruStored, ruUploads, nonRuVars>>

\* the page is loaded again: the DOMContentLoaded handler of main.js reads
\* recentUploads; recent says whether its timestamp is less than a minute old
DOMContentLoaded(recent) ==
    /\ ruDom' = FALSE
    /\ ruInFlight' = FALSE
    /\ ruFetches' = IF ruStored.present /\ recent
                    THEN refreshCalendarForUploadedFiles(ruStored.results,
                                                         ruFetches)
                    ELSE ruFetches
    /\ ruStored' = NoItem
    /\ UNCHANGED <<ruHandled, ruData, ruUploads, nonRuVars>>

ruInit == cfIdle /\ upIdle /\ psIdle /\ mcIdle /\ ldIdle /\ ruIdle /\ rqIdle

NextRefresh ==
    \/ uploadModalShown
    \/ uploadModalHidden
    \/ uploadRequested
    \/ \E data \in UploadData : startUploadThen(data)
    \/ startUploadCatch
    \/ \E recent \in BOOLEAN : DOMContentLoaded(recent)

SpecRefresh == ruInit /\ [][NextRefresh]_vars

(***************************************************************************)
(* C14, C18: the refresh after an upload and the account name lookup       *)
(***************************************************************************)
\* the account ids that the successful results' names map to in the table
MappedAccounts(results) ==
    {Str(accountMappings[results[i].account_name]) :
        i \in {j \in DOMAIN results :
                  /\ results[j].success
                  /\ results[j].account_name \in DOMAIN accountMappings}}

\* C14: after a response with success = true and at least one successful
\* upload has been handled, loadAccount has been called exactly once for each
\* account id a successful result's account_name maps to in the lookup table,
\* and for nothing else.
C14_RefetchOncePerAccount ==
    (ruHandled /\ ruData.success /\ successful_uploads(ruData.results) > 0)
        => \A t \in Targets :
              ruFetches[t] = IF t \in MappedAccounts(ruData.results) THEN 1
                             ELSE 0

\* C18: there are 9 account ids, mapAccountNameToId gives back the id of each
\* formatted id, and it gives null for every name of a handled result that is
\* not the display name of one of the 9.
C18_ExactInverse ==
    /\ Len(accountIds) = 9
    /\ \A i \in DOMAIN accountIds :
          mapAccountNameToId(formatAccountName(accountIds[i]).value)
              = Str(accountIds[i])
    /\ \A i \in DOMAIN ruData.results :
          LET n == ruData.results[i].account_name
          IN (\A k \in DOMAIN accountIds :
                 formatAccountName(accountIds[k]) # Str(n))
                 => mapAccountNameToId(n) = Null

(***************************************************************************)
(* API requests: the response handling of StatementsAPI (production        *)
(* version), of startUpload and of handleYearChange                        *)
(***************************************************************************)
\* requests that are followed
MaxRequests == 2

\* the StatementsAPI functions that return a promise
ApiFunctions ==
    {"loadAccount", "parseAccount", "getParseProgress", "uploadFiles",
     "validateFileFormat", "getSupportedFormats", "downloadFile", "getUIData",
     "refreshInventory", "refreshAllInventories", "getHealthStatus"}

\* the fetch calls with inline handlers in main.js
InlineFetches == {"startUpload", "handleYearChange"}

RequestKinds == ApiFunctions \cup InlineFetches

\* what a request ends with: a 2xx answer with success, a 2xx answer without,
\* the statuses 401, 403 and 500, a network error
Responses == {"ok", "refused", "401", "403", "500", "network"}

\* the first then tests response.status === 401 || response.status === 403
ChecksAuth(kind) ==
    kind \notin {"getHealthStatus", "startUpload", "handleYearChange"}

\* the second then hands its argument on without reading it: resolve(data)
ResolvesUnread(kind) ==
    kind \in {"validateFileFormat", "getSupportedFormats", "getHealthStatus"}

\* what the caller sees: its promise resolved or rejected; for the inline
\* fetches the success branch or the catch
Delivery(kind, response) ==
    IF response = "network" THEN "rejected"
    ELSE IF response \in {"401", "403"} /\ ChecksAuth(kind)
    THEN (IF ResolvesUnread(kind) THEN "resolved" ELSE "rejected")
    ELSE IF response \in {"401", "403", "500"} THEN "rejected"
    ELSE IF response = "ok" THEN "resolved"
    ELSE IF ResolvesUnread(kind) THEN "resolved"
    ELSE IF kind \in {"uploadFiles", "downloadFile", "startUpload"} THEN "resolved"
    ELSE "rejected"

\* a request of the kind is sent
apiRequest(kind) ==
    /\ rqLocation = "statements"
    /\ rqPending = "none"
    /\ rqCount < MaxRequests
    /\ rqCount' = rqCount + 1
    /\ rqPending' = kind
    /\ UNCHANGED <<rqLocation, rqLast, nonRqVars>>

\* the then / catch chain of the pending request runs on its response
apiResponse(response) ==
    /\ rqPending # "none"
    /\ rqPending' = "none"
    /\ rqLocation' = IF response \in {"401", "403"} /\ ChecksAuth(rqPending)
                     THEN "login" ELSE rqLocation
    /\ rqLast' = [kind |-> rqPending, response |-> response,
                  delivery |-> Delivery(rqPending, response)]
    /\ UNCHANGED <<rqCount, nonRqVars>>

\* the user signs in again and comes back to the statements page
signIn ==
    /\ rqLocation = "login"
    /\ rqLocation' = "statements"
    /\ UNCHANGED <<rqPending, rqLast, rqCount, nonRqVars>>

rqInit == cfIdle /\ upIdle /\ psIdle /\ mcIdle /\ ldIdle /\ ruIdle /\ rqIdle

NextRequest ==
    \/ \E kind \in RequestKinds : apiRequest(kind)
    \/ \E response \in Responses : apiResponse(response)
    \/ signIn

SpecRequest == rqInit /\ [][NextRequest]_vars

(***************************************************************************)
(* C17: 401 and 403                                                        *)
(***************************************************************************)
\* C17: when the request settled last was answered with 401 or 403, its
\* handling has sent the browser to /login and has not given the caller a
\* resolved promise (a success branch).
C17_UnauthorizedRedirects ==
    [][(rqPending # "none" /\ rqPending' = "none"
            /\ rqLast'.response \in {"401", "403"})
          => (rqLocation' = "login" /\ rqLast'.delivery # "resolved")]_vars

C23_CompletionAtMostOnce ==
    psVariant = "main" => \A p \in Parses : completions[p] <= 1

\* the outcomes of a parse the claim C24 lists
Outcomes == {"startFailed", "completed", "error", "pollFailed"}

\* C24 (main.js): the step in which the parse of the dialog on the page
\* reaches one of its outcomes leaves #parseCloseBtn enabled.
C24_CloseButtonReenabled ==
    [][psVariant = "main" =>
          \A p \in Parses :
             (/\ parseModalOpen
              /\ Latest = p
              /\ psStage[p] \notin Outcomes
              /\ psStage'[p] \in Outcomes) => ~parseCloseBtnDisabled']_vars


(***************************************************************************)
(* C29: the counters of the per-file upload                                *)
(***************************************************************************)
\* C29 (upload-modal.js): every file is counted once whatever its response:
\* the completed counter equals the number of results and never exceeds the
\* number of files to upload, and a complete run has one result per file.
C29_EachFileCountedOnce ==
    upVariant = "modal" =>
       /\ uploadedCount = Len(puResults)
       /\ uploadedCount <= Len(puFiles)
       /\ puPhase = "complete" => Len(puResults) = Len(puFiles)


(***************************************************************************)
(* C30: the poll intervals of the api.js unified frontend                  *)
(***************************************************************************)
\* the intervals of startProgressTracking that have not been cleared
ActiveIntervals == {p \in Parses : psInterval[p]}

\* C30 (api.js, globals variant): at most one poll interval is active at a
\* time, and an active interval is the one parseProgressInterval holds, so
\* that stopProgressTracking can clear it.
C30_AtMostOneInterval ==
    psVariant = "unified" =>
       /\ Cardinality(ActiveIntervals) <= 1
       /\ \A p \in ActiveIntervals : parseProgressInterval = p


(***************************************************************************)
(* C22: the rendered month cell                                            *)
(***************************************************************************)
\* C22 (ui.js updateMonthCell): a rendered cell is empty (class no-file, no
\* icon, count '-') exactly when its record is absent, has status 'missing'
\* or file_count 0; otherwise it has class month-cell with the icon of each
\* file type of the record, and a clickable cell shows at least one icon.
C22_CellFollowsRecord ==
    mcRendered =>
       /\ (mcClass = "month-cell no-file") <=> isEmptyMonth(mcMonthData)
       /\ isEmptyMonth(mcMonthData) =>
             (mcIcon = {} /\ mcCount = Dash /\ mcDbIcon = "db-not-loaded")
       /\ ~isEmptyMonth(mcMonthData) =>
             /\ mcClass = "month-cell"
             /\ ("fa-file-excel" \in mcIcon) <=> mcMonthData.xlsx.present
             /\ ("fa-file-pdf" \in mcIcon) <=> mcMonthData.pdf.present
       /\ mcClass = "month-cell" => mcIcon # {}


(***************************************************************************)
(* C25 .. C28: the bulk run's counters and the year changes                *)
(***************************************************************************)
\* C25 (api.js loadAllFiles): every account of a bulk run is counted once:
\* processed never exceeds the number of accounts to load, successful plus
\* errors equals processed, and the completion dialog replaces the loading
\* dialog when, and only when, every request of the run has settled.
C25_EachAccountCountedOnce ==
    /\ ldProcessed <= accountsToLoadLength
    /\ ldSuccessful + ldErrors = ldProcessed
    /\ ldDialog = "complete" => (ldTimers = {} /\ ldBulkNet = {})
    /\ (ldLocation = "statements" /\ ldTimers = {} /\ ldBulkNet = {})
          => ldDialog # "loading"

\* C26 (api.js, ui.js): account data kept under a year of accountDataByYear
\* was fetched with that year in the request.
C26_StoredUnderFetchedYear ==
    \A y \in Years : \A a \in Accounts :
        accountDataByYear[y] # NoYearData
            => accountDataByYear[y][a] \in {0, y}

\* the outcomes of a year change that C27 calls failed
FailedYearOutcomes == YearOutcomes \ {"ok"}

\* C27 (main.js handleYearChange): a year change that fails, with no other
\* change settled since it was requested, leaves currentYear at the old
\* year, which is also the year the selector is reset to.
C27_FailedChangeKeepsYear ==
    [][\A r \in YearRequests : \A o \in FailedYearOutcomes :
          (r.oldYear = currentYear /\ handleYearChangeSettled(r, o))
             => (currentYear' = r.oldYear /\ ldSelector' = currentYear')]_vars

\* C28 (main.js handleYearChange, popstate): once the current year is the
\* year the user went to last, the successful response of an earlier year
\* change does not replace it: currentYear and the calendar stay with the
\* year selected last whatever the order of the responses.
C28_LastSelectedWins ==
    [][\A r \in YearRequests :
          (currentYear = ldSelected /\ handleYearChangeSettled(r, "ok"))
             => (currentYear' = ldSelected /\ ldCalendar' = ldSelected)]_vars


(***************************************************************************)
(* C21: the cache operations of the state store                            *)
(***************************************************************************)
\* C21 (config.js): setAccountData(a, d) makes getAccountData(a) return d
\* and isAccountLoaded(a) true; clearAccountData(a) removes account a and
\* leaves what the other accounts of the current year hold;
\* clearAccountData() removes every account of the current year; none of
\* them changes the data kept under another year or the current year.
C21_CacheActsOnCurrentYear ==
    [][/\ \A a \in Accounts : \A d \in Years :
            setAccountData(a, d) =>
               /\ getAccountData(a)' = [loaded |-> TRUE, accountData |-> d]
               /\ isAccountLoaded(a)'
       /\ \A a \in Accounts :
            clearAccountData(a) =>
               /\ ~isAccountLoaded(a)'
               /\ \A b \in Accounts \ {a} :
                     getAccountData(b)' = getAccountData(b)
       /\ clearAccountData(0) => \A b \in Accounts : ~isAccountLoaded(b)'
       /\ (ldLastOp' # ldLastOp) =>
            /\ currentYear' = currentYear
            /\ \A y \in Years \ {currentYear} :
                  accountDataByYear'[y] = accountDataByYear[y]]_vars

\* clearAccountData(1) has removed account 1 of the current year, account 2
\* of the current year and account 1 of another year still have their data
C21_Witness ==
    /\ ldLastOp = [op |-> "clear", accountId |-> 1, accountData |-> 0]
    /\ ~isAccountLoaded(1)
    /\ isAccountLoaded(2)
    /\ \E y \in Years \ {currentYear} :
          accountDataByYear[y] # NoYearData /\ accountDataByYear[y][1] # 0

====
